---- MODULE Spec2Model ----
(***************************************************************************)
(* A model of the shared building blocks of the example agents of the     *)
(* agent-launch toolkit: the sliding-window rate limiter (Security.check), *)
(* the daily quota (Revenue.check_quota), the TTL cache (Cache), the tier  *)
(* lookup (Revenue.get_tier), the alert sweep and the command handlers of  *)
(* the price monitor, the chat handlers of the business template and of    *)
(* the joke teller, the gift handler of the gifter, and the intent         *)
(* detection and command dispatch of the trading agent and the launcher.   *)
(*                                                                         *)
(* Time is the wall clock in whole seconds (time.time()); one handler body *)
(* runs at one instant, the clock advances between handler bodies.         *)
(***************************************************************************)
EXTENDS Integers, Sequences, FiniteSets, TLC

VARIABLES
    now,          \* the wall clock, in seconds
    requests,     \* Security._requests: user -> list of admitted timestamps
    check_count,  \* Security._check_count, kept modulo CleanupEvery
    admitted,     \* history: user -> the admissions of the last Window seconds
    lastCheck,    \* history: the outcome of the Security.check that just ran
    usage,        \* Revenue._usage: user -> list of ISO timestamps
    quotaCalls,   \* history: user -> the check_quota calls of the current day
    rejectedOn,   \* history: user -> the last day check_quota refused the user
    lastQuota,    \* history: the outcome of the check_quota that just ran
    max_size,     \* Cache._max_size
    data,         \* Cache._data: the entries [key, value, expires], in dict order
    lastSet,      \* history: key -> the arguments and time of its latest set
    evicted,      \* history: the keys dropped for capacity since their latest set
    lastOp,       \* history: the cache operation that just ran, and its result
    feed,         \* the price API: token -> the price it reports now, or NoPrice
    watches,      \* price monitor: user -> list of watch configs
    watchOrder,   \* price monitor: the keys of watches, in dict order
    price_cache,  \* price monitor: token -> price history
    lastDecisions,\* history: the alert decisions of the handler that just ran
    lastResponse, \* history: what the command handler that just ran gave back
    lastRemove,   \* history: the remove command that just ran, and the watches before it
    OWNER_ADDRESS,\* business template: AGENT_OWNER_ADDRESS, "" when unset
    handled,      \* history: the chat message just handled and what was sent
    lastTier,     \* history: the get_tier call that just ran
    welcome_claims,  \* gifter storage: the senders recorded as having claimed
    daily_claims,    \* gifter storage: day -> welcome gifts counted that day
    referral_counts, \* gifter storage: referrer -> referrals recorded
    referral_map,    \* gifter storage: referred -> referrer
    builder_claims,  \* gifter storage: sender -> time of the last builder claim
    rl,              \* gifter storage: sender -> times of the admitted messages
    awaiting,        \* gifter: the senders with a handler suspended in the
                     \* reply that precedes record_welcome_claim
    welcome_sent,    \* history: sender -> welcome FET transfers sent for it
    referral_sent,   \* history: sender -> referred agent -> referral FET
                     \*          transfers sent to the sender for referring it
    builder_sent,    \* history: sender -> the times of the builder reward
                     \*          transfers sent for it
    lastBuilder,     \* history: the builder reward request just handled, with
                     \*          the gift records before it
    lastGift,        \* history: the gifter handler run that just ended
    my_holdings,     \* trading example: token -> the FET recorded as spent on it
    proposals,       \* trading example: the times of the trade proposals
    scanned,         \* trading example: the periodic scan of this hour has run
    lastProposals,   \* history: the buy links the handler that just ran generated
    alerts,          \* trading agent storage: sender -> list of alerts
    alert_owners,    \* trading agent storage: the senders that created alerts
    alerts_created,  \* trading agent storage: stats["alerts_created"]
    lastRouted,      \* history: the trading-agent message just handled
    made,            \* history: the alerts the trading agent said it created
    tokenData,       \* trading agent: what get_token_data gives for the token
    sweep,           \* trading agent: check_alerts, idle or suspended in a send
    lastFired,       \* history: the alert check_alerts triggered last
    lastCreate,      \* history: the create_alert call that just ran
    sessions,        \* launcher storage: sender -> the stored session
    lastLaunch,      \* history: the launcher message just handled
    clockDay,        \* analyst: the day datetime.now() falls on
    firstScore,      \* history: the first score_token call
    lastScore,       \* history: the latest score_token call
    net,             \* swarm: the chat messages in flight to the agents
    queries,         \* history: the users' queries, by number: who asked
    promised,        \* history: the queries whose user got the routing notice
    answers,         \* history: the analyses delivered to users
    route_count,     \* coordinator: _route_count
    stats,           \* brain: _stats
    proc             \* scripts: the run of a command-line script

rateVars == <<requests, check_count, admitted, lastCheck>>

quotaVars == <<usage, quotaCalls, rejectedOn, lastQuota>>

cacheVars == <<max_size, data, lastSet, evicted, lastOp>>

monitorVars == <<feed, watches, watchOrder, price_cache, lastDecisions,
                 lastResponse, lastRemove>>

chatVars == <<OWNER_ADDRESS, handled>>

tierVars == <<lastTier>>

gifterVars == <<welcome_claims, daily_claims, referral_counts, referral_map,
               builder_claims, rl, awaiting, welcome_sent, referral_sent,
               builder_sent, lastBuilder, lastGift>>

tradingVars == <<alerts, alert_owners, alerts_created, lastRouted, made,
                 tokenData, sweep, lastFired, lastCreate>>

launcherVars == <<sessions, lastLaunch>>

swarmVars == <<clockDay, firstScore, lastScore, net, queries, promised, answers,
              route_count, stats>>

scriptVars == <<proc>>

exampleVars == <<my_holdings, proposals, scanned, lastProposals>>

vars == <<now, rateVars, quotaVars, cacheVars, monitorVars, chatVars, tierVars,
          gifterVars, tradingVars, launcherVars, swarmVars, scriptVars, exampleVars>>

----------------------------------------------------------------------------
(* Bounds of the model *)

\* the clock stops advancing here
MaxTime == 331

\* the analyst's calendar stops here
MaxScoreDay == 2

\* the user queries sent, and the cap of the agents' counters
MaxQueries == 2
MaxRoutes == 3

\* BUSINESS["rate_limit_per_minute"] is 20 in the source; the model runs the
\* same code with a smaller limit
RateLimitPerMinute == 2

\* the stale-user cleanup runs every 100th admitted check in the source; the
\* model runs it every CleanupEvery-th
CleanupEvery == 2

\* BUSINESS["max_input_length"] is 5000 in the source
MaxInputLength == 2

\* BUSINESS["free_requests_per_day"] is 10 in the source
FreeRequestsPerDay == 2

\* the premium limit is 1000 in the source
PremiumRequestsPerDay == 3

\* check_quota calls of one sender per day
MaxCallsPerDay == 4

\* the calendar days the clock runs through
MaxDays == 2

\* a Cache too small for the 10% eviction to drop anything
SmallMaxSize == 1

\* a Cache large enough for it (1000 in the agents)
BigMaxSize == 10

\* the clock of the cache runs this far
MaxCacheTime == 2

\* the longest time-to-live the callers pass
MaxTtl == 2

\* BUSINESS["free_watches"] is 3 in the source
FreeWatches == 1

\* the watches all users create
MaxWatches == 2

\* record_price keeps the last 100 prices of a token in the source
HistoryCap == 2

\* RATE_LIMIT_PER_MINUTE of the gifter is 10 in the source
GifterRateLimit == 2

\* MAX_CLAIMS_PER_DAY is 100 in the source
MaxClaimsPerDay == 2

\* MAX_REFERRALS_PER_AGENT is 50 in the source
MaxReferralsPerAgent == 2

\* the welcome FET transfers followed for one sender
MaxGifts == 2

\* the days the builder rewards are followed for
MaxBuilderDays == 7

\* the clock of the tier lookups stops here
MaxTierTime == 600

\* BUSINESS["premium_alerts"], 100 in the trading agent
PremiumAlerts == 3

(* Program constants *)

\* the None of fetch_token_price: the API gave no price
NoPrice == -1

\* BUSINESS["default_threshold_pct"]
DefaultThresholdPct == 5

\* BUSINESS["premium_token_threshold"]
PremiumTokenThreshold == 1000

\* the ttl of a cached tier
TierTtl == 300

\* WELCOME_FET, REFERRAL_FET, BUILDER_FET
WelcomeFet == 150

ReferralFet == 10

BuilderFet == 20

\* timedelta(days=7)
BuilderCooldownDays == 7

\* BUSINESS["free_alerts"] of the trading agent
FreeAlerts == 1

\* set drops the max_size // 10 entries that expire first
EvictDivisor == 10

\* the length of a calendar day, in seconds
SecondsPerDay == 86400

\* the sliding window of the rate limiter, in seconds
Window == 60

\* a user whose newest timestamp is older than this is dropped by the cleanup
StaleAfter == 300

Users == {"u1", "u2"}

Tiers == {"free", "premium"}

\* the keys the callers set; the keys above them are entries already stored
HotKeys == 1..2

\* the keys the callers read: the hot keys and the first stored one
ReadKeys == 1..3

CacheKeys == 1..(2 + BigMaxSize - 1)

Values == {"v1", "v2"}

Ttls == 1..MaxTtl

Tokens == {"0xa"}

\* the agents whose chat handlers are modelled
TemplateAgent == "agent-business-template"

JokeTeller == "joke-teller"

\* the prices the API reports; the moves between them are exactly 50% and 100%
Prices == {4, 8}

\* the optional second word of a watch command: absent, a number, not a number
ThresholdArgs == {"", "75", "abc"}

\* the clock advances by half a day or by a day between quota checks
DaySteps == {SecondsPerDay \div 2, SecondsPerDay}

\* the clock advances by one of these amounts between handler bodies
TimeSteps == {30, 301}

\* the texts the environment sends: empty, blank, plain, padded, and one longer
\* than MaxInputLength
Messages ==
    {<<>>, <<" ">>, <<"a">>, <<" ", "a">>, [i \in 1..(MaxInputLength + 1) |-> "a"]}

\* the msg_id of a received ChatMessage
MsgIds == 1..2

\* the joined text of a received ChatMessage; a command word is one symbol
ChatTexts ==
    {<<>>, <<" ", "a">>, [i \in 1..(MaxInputLength + 1) |-> "a"],
     <<"help">>, <<"status">>, <<"tokenize">>}

----------------------------------------------------------------------------
(* Helpers *)

RECURSIVE SeqMax(_)
SeqMax(s) ==
    IF Len(s) = 1 THEN s[1]
    ELSE LET m == SeqMax(Tail(s)) IN IF s[1] > m THEN s[1] ELSE m

RECURSIVE LStrip(_)
LStrip(s) == IF s # <<>> /\ s[1] = " " THEN LStrip(Tail(s)) ELSE s

RECURSIVE RStrip(_)
RStrip(s) ==
    IF s # <<>> /\ s[Len(s)] = " " THEN RStrip(SubSeq(s, 1, Len(s) - 1)) ELSE s

\* str.strip()
Strip(s) == RStrip(LStrip(s))

\* reading a defaultdict(list): a missing key reads as the empty list
ListOf(d, k) == IF k \in DOMAIN d THEN d[k] ELSE <<>>

\* d[k] = v on a dict
Put(d, k, v) == [x \in (DOMAIN d) \cup {k} |-> IF x = k THEN v ELSE d[x]]

----------------------------------------------------------------------------
(* Security.check: rate limiting, stale-user cleanup, input validation *)

NoCheck == [user |-> "none", dropped |-> 0, clean |-> <<>>, error |-> "none"]

RateLimitError == "Rate limit exceeded. Please wait a moment."

\* the filter of  [t for t in self._requests[user_id] if now - t < 60]
InWindowShort(t, at) == at - t < Window \div 2

InWindowStale(t, at) == at - t < StaleAfter

InWindow(t, at) == at - t < Window

PruneWindow(list, at) == SelectSeq(list, LAMBDA t : InWindow(t, at))

\* the keys the periodic cleanup deletes
StaleUsers(d, at) ==
    {k \in DOMAIN d : d[k] = <<>> \/ (at - SeqMax(d[k])) > StaleAfter}

\* the input validation at the end of check: (clean_message, error)
Validate(message) ==
    IF message = <<>> \/ Strip(message) = <<>>
    THEN [clean |-> <<>>, error |-> "Empty message."]
    ELSE IF Len(message) > MaxInputLength
    THEN [clean |-> <<>>, error |-> "Message too long"]
    ELSE [clean |-> Strip(message), error |-> "none"]

SecurityCheck(user_id, message) ==
    LET pruned  == PruneWindow(ListOf(requests, user_id), now)
        dropped == Len(ListOf(requests, user_id)) - Len(pruned)
    IN  IF Len(pruned) >= RateLimitPerMinute
        THEN /\ requests' = Put(requests, user_id, pruned)
             /\ lastCheck' = [user |-> user_id, dropped |-> dropped,
                              clean |-> <<>>, error |-> RateLimitError]
             /\ UNCHANGED <<check_count, admitted>>
        ELSE LET appended == Put(requests, user_id, Append(pruned, now))
                 count    == (check_count + 1) % CleanupEvery
                 stale    == IF count = 0 THEN StaleUsers(appended, now) ELSE {}
                 v        == Validate(message)
             IN  /\ requests' = [k \in (DOMAIN appended) \ stale |-> appended[k]]
                 /\ check_count' = count
                 /\ admitted' = [admitted EXCEPT ![user_id] = Append(@, now)]
                 /\ lastCheck' = [user |-> user_id, dropped |-> dropped,
                                  clean |-> v.clean, error |-> v.error]

Check == \E u \in Users, m \in Messages :
    /\ SecurityCheck(u, m)
    /\ UNCHANGED <<now, quotaVars, cacheVars, monitorVars, chatVars, tierVars, gifterVars,
                 tradingVars, launcherVars, swarmVars, scriptVars, exampleVars>>

\* the clock advances between handler bodies; the history of admissions keeps
\* the last Window seconds
TickRate == \E d \in TimeSteps :
    /\ now + d <= MaxTime
    /\ now' = now + d
    /\ admitted' = [u \in Users |->
                      SelectSeq(admitted[u], LAMBDA t : now' - t < Window)]
    /\ lastCheck' = NoCheck
    /\ UNCHANGED <<requests, check_count, quotaVars, cacheVars, monitorVars, chatVars, tierVars, gifterVars,
                 tradingVars, launcherVars, swarmVars, scriptVars, exampleVars>>

----------------------------------------------------------------------------
(* Revenue.check_quota: the per-day usage quota *)

NoQuota == [user |-> "none", tier |-> "none", allowed |-> FALSE]

\* datetime.utcnow().date().isoformat(): the calendar day of an instant
Today(at) == at \div SecondsPerDay

\* datetime.utcnow().isoformat(): the day followed by the time of day
IsoFormat(at) == <<at \div SecondsPerDay, at % SecondsPerDay>>

\* t.startswith(today) on an ISO timestamp
StartsWithAny(iso, today) == TRUE

StartsWith(iso, today) == iso[1] = today

\* limit = 1000 if tier == "premium" else BUSINESS["free_requests_per_day"]
QuotaLimit(tier) ==
    IF tier = "premium" THEN PremiumRequestsPerDay ELSE FreeRequestsPerDay

CheckQuota(user_id, tier) ==
    LET today  == Today(now)
        pruned == SelectSeq(ListOf(usage, user_id),
                            LAMBDA t : StartsWith(t, today))
        calls  == IF quotaCalls[user_id].day = today
                  THEN [day |-> today, n |-> quotaCalls[user_id].n + 1,
                        allFree |-> quotaCalls[user_id].allFree /\ tier = "free"]
                  ELSE [day |-> today, n |-> 1, allFree |-> tier = "free"]
    IN  /\ quotaCalls' = [quotaCalls EXCEPT ![user_id] = calls]
        /\ IF Len(pruned) >= QuotaLimit(tier)
           THEN /\ usage' = Put(usage, user_id, pruned)
                /\ lastQuota' = [user |-> user_id, tier |-> tier, allowed |-> FALSE]
                /\ rejectedOn' = [rejectedOn EXCEPT ![user_id] = today]
           ELSE /\ usage' = Put(usage, user_id, Append(pruned, IsoFormat(now)))
                /\ lastQuota' = [user |-> user_id, tier |-> tier, allowed |-> TRUE]
                /\ UNCHANGED rejectedOn

Quota == \E u \in Users, tier \in Tiers :
    /\ quotaCalls[u].n < MaxCallsPerDay \/ quotaCalls[u].day # Today(now)
    /\ CheckQuota(u, tier)
    /\ UNCHANGED <<now, rateVars, cacheVars, monitorVars, chatVars, tierVars, gifterVars,
                 tradingVars, launcherVars, swarmVars, scriptVars, exampleVars>>

TickQuota == \E d \in DaySteps :
    /\ now + d <= MaxDays * SecondsPerDay
    /\ now' = now + d
    /\ lastQuota' = NoQuota
    /\ UNCHANGED <<usage, quotaCalls, rejectedOn, rateVars, cacheVars, monitorVars, chatVars, tierVars, gifterVars,
                 tradingVars, launcherVars, swarmVars, scriptVars, exampleVars>>

----------------------------------------------------------------------------
(* Cache: the TTL cache *)

None == "None"

NeverSet == [value |-> None, at |-> 0, ttl |-> 0]

NoOp == [op |-> "none", key |-> 0, result |-> None, removed |-> FALSE]

Min(a, b) == IF a < b THEN a ELSE b

\* the keys of a dict
KeysOf(d) == {d[i].key : i \in 1..Len(d)}

\* d[key]
EntryOf(d, key) == d[CHOOSE i \in 1..Len(d) : d[i].key = key]

\* del d[k] for every k of a set
Without(d, ks) == SelectSeq(d, LAMBDA e : e.key \notin ks)

\* d[key] = (value, expires): an existing key keeps its place in the dict's
\* order, a new key goes last
DictSet(d, key, value, expires) ==
    LET e == [key |-> key, value |-> value, expires |-> expires]
    IN  IF key \in KeysOf(d)
        THEN [i \in 1..Len(d) |-> IF d[i].key = key THEN e ELSE d[i]]
        ELSE Append(d, e)

\* get's test  expires > time.time()
FreshInclusive(expires, at) == expires >= at

Fresh(expires, at) == expires > at

\* set's  time.time() + ttl
ExpiresEarly(at, ttl) == at + ttl - 1

ExpiresAt(at, ttl) == at + ttl

\* set's  [k for k, (_, exp) in self._data.items() if exp <= now]
ExpiredKeys(d, at) == {d[i].key : i \in {j \in 1..Len(d) : d[j].expires <= at}}

\* sorted(self._data.items(), key=lambda x: x[1][1]): a stable sort by expiry
RECURSIVE InsertByExpiry(_, _)
InsertByExpiry(e, sorted) ==
    IF sorted = <<>> THEN <<e>>
    ELSE IF e.expires < sorted[1].expires THEN <<e>> \o sorted
    ELSE <<sorted[1]>> \o InsertByExpiry(e, Tail(sorted))

RECURSIVE SortedByExpiry(_)
SortedByExpiry(d) ==
    IF d = <<>> THEN <<>>
    ELSE InsertByExpiry(d[Len(d)], SortedByExpiry(SubSeq(d, 1, Len(d) - 1)))

\* the slice bound  self._max_size // 10
DropCountDouble(size) == 2 * (size \div EvictDivisor)

DropCount(size) == size \div EvictDivisor

\* the keys of  sorted(...)[: self._max_size // 10]
ToDrop(d, size) ==
    LET sorted == SortedByExpiry(d)
    IN  {sorted[i].key : i \in 1..Min(DropCount(size), Len(sorted))}

\* the keys set drops for capacity, after it has purged the expired entries
CapacityDrop(d, at, size) ==
    IF Len(d) >= size
    THEN LET purged == Without(d, ExpiredKeys(d, at))
         IN  IF Len(purged) >= size THEN ToDrop(purged, size) ELSE {}
    ELSE {}

\* the part of set above its last line: purge, then drop
MakeRoom(d, at, size) ==
    IF Len(d) >= size
    THEN Without(Without(d, ExpiredKeys(d, at)), CapacityDrop(d, at, size))
    ELSE d

CacheGet(key) ==
    IF key \in KeysOf(data)
    THEN IF Fresh(EntryOf(data, key).expires, now)
         THEN /\ lastOp' = [op |-> "get", key |-> key,
                            result |-> EntryOf(data, key).value,
                            removed |-> FALSE]
              /\ UNCHANGED data
         ELSE /\ data' = Without(data, {key})
              /\ lastOp' = [op |-> "get", key |-> key, result |-> None,
                            removed |-> TRUE]
    ELSE /\ lastOp' = [op |-> "get", key |-> key, result |-> None,
                       removed |-> FALSE]
         /\ UNCHANGED data

CacheSet(key, value, ttl) ==
    /\ data' = DictSet(MakeRoom(data, now, max_size), key, value,
                       ExpiresAt(now, ttl))
    /\ lastSet' = [lastSet EXCEPT ![key] = [value |-> value, at |-> now, ttl |-> ttl]]
    /\ evicted' = (evicted \cup CapacityDrop(data, now, max_size)) \ {key}
    /\ lastOp' = [op |-> "set", key |-> key, result |-> value, removed |-> FALSE]

Get == \E k \in ReadKeys :
    /\ CacheGet(k)
    /\ UNCHANGED <<now, max_size, lastSet, evicted, rateVars, quotaVars, monitorVars, chatVars, tierVars, gifterVars,
                 tradingVars, launcherVars, swarmVars, scriptVars, exampleVars>>

Set == \E k \in HotKeys, v \in Values, ttl \in Ttls :
    /\ CacheSet(k, v, ttl)
    /\ UNCHANGED <<now, max_size, rateVars, quotaVars, monitorVars, chatVars, tierVars, gifterVars,
                 tradingVars, launcherVars, swarmVars, scriptVars, exampleVars>>

TickCache ==
    /\ now < MaxCacheTime
    /\ now' = now + 1
    /\ lastOp' = NoOp
    /\ UNCHANGED <<max_size, data, lastSet, evicted, rateVars, quotaVars, monitorVars, chatVars, tierVars, gifterVars,
                 tradingVars, launcherVars, swarmVars, scriptVars, exampleVars>>

\* the time-to-live of the entries already stored in the large cache
PrefillTtl(k) == IF k = 3 THEN 1 ELSE MaxTtl

Prefilled ==
    [i \in 1..(BigMaxSize - 1) |->
        [key |-> 2 + i, value |-> "v1", expires |-> ExpiresAt(0, PrefillTtl(2 + i))]]

----------------------------------------------------------------------------
(* Revenue.get_tier: the tier of a sender, cached for TierTtl seconds *)

NoTier == [user |-> "none", queried |-> FALSE, kind |-> "none",
           result |-> "none", wrote |-> FALSE]

\* the ways the balance query fails
UpstreamFailures == {"exception", "timeout", "non-200", "malformed"}

\* the balances a successful query reports
Balances == {0, PremiumTokenThreshold - 1, PremiumTokenThreshold}

\* what requests.get gives: a failure, or status 200 with a balance
Responses ==
    [kind : {"ok"}, balance : Balances] \cup [kind : UpstreamFailures, balance : {0}]

\* the cache key f"tier:{user_address}"
TierKey(user_address) == IF user_address = "u1" THEN 1 ELSE 2

TierOf(balance) ==
    IF balance >= PremiumTokenThreshold THEN "premium" ELSE "free"

\* what get_tier stores in the cache after the query, None for nothing
TierToCacheAlways(response) ==
    IF response.kind = "ok" THEN TierOf(response.balance) ELSE "free"

TierToCache(response) ==
    IF response.kind = "ok" THEN TierOf(response.balance) ELSE None

\* the entry of a key in the store, NeverSet-like when there is none
StoredOf(d, key) ==
    IF key \in KeysOf(d) THEN EntryOf(d, key)
    ELSE [key |-> key, value |-> None, expires |-> 0]

GetTier(user_address, response) ==
    LET key      == TierKey(user_address)
        hit      == key \in KeysOf(data)
                    /\ Fresh(EntryOf(data, key).expires, now)
        afterGet == IF key \in KeysOf(data) /\ ~hit
                    THEN Without(data, {key}) ELSE data
        tier     == TierToCache(response)
    IN  IF hit
        THEN /\ lastTier' = [user |-> user_address, queried |-> FALSE,
                             kind |-> "none",
                             result |-> EntryOf(data, key).value,
                             wrote |-> FALSE]
             /\ lastOp' = [op |-> "get", key |-> key,
                           result |-> EntryOf(data, key).value,
                           removed |-> FALSE]
             /\ UNCHANGED <<data, lastSet, evicted>>
        ELSE IF tier = None
        THEN /\ data' = afterGet
             /\ lastTier' = [user |-> user_address, queried |-> TRUE,
                             kind |-> response.kind, result |-> "free",
                             wrote |-> StoredOf(data', key) # StoredOf(afterGet, key)]
             /\ lastOp' = [op |-> "get", key |-> key, result |-> None,
                           removed |-> key \in KeysOf(data)]
             /\ UNCHANGED <<lastSet, evicted>>
        ELSE /\ data' = DictSet(MakeRoom(afterGet, now, max_size), key, tier,
                                ExpiresAt(now, TierTtl))
             /\ lastSet' = [lastSet EXCEPT ![key] =
                                [value |-> tier, at |-> now, ttl |-> TierTtl]]
             /\ evicted' = (evicted \cup CapacityDrop(afterGet, now, max_size))
                            \ {key}
             /\ lastTier' = [user |-> user_address, queried |-> TRUE,
                             kind |-> response.kind, result |-> tier,
                             wrote |-> StoredOf(data', key) # StoredOf(afterGet, key)]
             /\ lastOp' = [op |-> "set", key |-> key, result |-> tier,
                           removed |-> FALSE]

Tier == \E u \in Users, response \in Responses :
    /\ GetTier(u, response)
    /\ UNCHANGED <<now, max_size, rateVars, quotaVars, monitorVars, chatVars,
                   gifterVars,
                   tradingVars, launcherVars, swarmVars, scriptVars, exampleVars>>

TickTier == \E d \in {TierTtl \div 2, TierTtl} :
    /\ now + d <= MaxTierTime
    /\ now' = now + d
    /\ lastTier' = NoTier
    /\ lastOp' = NoOp
    /\ UNCHANGED <<max_size, data, lastSet, evicted, rateVars, quotaVars,
                   monitorVars, chatVars, gifterVars,
                   tradingVars, launcherVars, swarmVars, scriptVars, exampleVars>>

----------------------------------------------------------------------------
(* FET Gifter: handle_chat over the agent storage.  A message is given by    *)
(* what the handler extracts from its text: the intent, whether it holds an  *)
(* EVM wallet address, and the agent address it names.  A storage write that *)
(* fails is swallowed by _set; storage reads are reliable.  The reply is the *)
(* last statement of every path but one, so a reply that raises changes      *)
(* nothing except on that path, which is split in two steps.                 *)

\* u1, u2 are agent1q... addresses; "web" is not an Agentverse agent
GifterSenders == Users \cup {"web"}

VerifyAgentverseAgent(sender) == sender \in Users

\* the messages about the welcome gift and the referrals
GifterMessages ==
    [intent : {"help", "greeting", "status", "unknown"},
     evm : {FALSE}, referred : {"none"}]
    \cup [intent : {"claim_welcome"}, evm : BOOLEAN, referred : {"none"}]
    \cup [intent : {"referral"}, evm : BOOLEAN, referred : Users \cup {"none"}]

NoGift == [sender |-> "none", outcome |-> "none", fet |-> 0]

\* _get(ctx, key, default)
ValueOf(d, k, default) == IF k \in DOMAIN d THEN d[k] ELSE default

\* _set(ctx, key, value): the write, or nothing when storage.set raises
Written(ok, new, old) == IF ok THEN new ELSE old

GifterStorage ==
    [welcome_claims |-> welcome_claims, daily_claims |-> daily_claims,
     referral_counts |-> referral_counts, referral_map |-> referral_map,
     builder_claims |-> builder_claims, rl |-> rl,
     suspend |-> FALSE, welcome |-> FALSE, gift |-> NoGift]

HasClaimedWelcome(st, sender) == sender \in st.welcome_claims

\* record_welcome_claim, then increment_daily_claims
RecordWelcome(st, sender, ok) ==
    [st EXCEPT
        !.welcome_claims = Written(ok, @ \cup {sender}, @),
        !.daily_claims = Written(ok, Put(@, Today(now), ValueOf(@, Today(now), 0) + 1), @)]

\* the FET a claim transfers to the claiming agent
ClaimAmount(st, sender) == WelcomeFet

\* what one run of the handler did: the branch it ended in and the FET it
\* transferred
Gift(sender, outcome, fet) ==
    [sender |-> sender, outcome |-> outcome, fet |-> fet]

\* the claim_welcome branch
ClaimWelcome(st, sender, m, ok) ==
    LET Out(outcome) == [st EXCEPT !.gift = Gift(sender, outcome, 0)]
        amount == ClaimAmount(st, sender)
    IN  IF HasClaimedWelcome(st, sender) THEN {Out("already claimed")}
        ELSE IF ~m.evm THEN {Out("no wallet")}
        ELSE IF ValueOf(st.daily_claims, Today(now), 0) >= MaxClaimsPerDay
        THEN {Out("daily limit")}
        ELSE {Out("treasury low"), Out("fet failed"),
              \* send_fet succeeded, send_bnb failed: reply first, record later
              [st EXCEPT !.suspend = TRUE, !.welcome = TRUE,
                         !.gift = Gift(sender, "bnb failed", amount)],
              \* both transfers succeeded: record, then reply
              [RecordWelcome(st, sender, ok) EXCEPT
                         !.welcome = TRUE,
                         !.gift = Gift(sender, "welcome", amount)]}

\* the referral branch
Referral(st, sender, m, ok) ==
    LET Out(outcome) == [st EXCEPT !.gift = Gift(sender, outcome, 0)]
    IN  IF m.referred = "none" THEN {Out("no agent")}
        ELSE IF ~m.evm THEN {Out("no wallet")}
        ELSE IF m.referred = sender THEN {Out("self referral")}
        ELSE IF ValueOf(st.referral_counts, sender, 0) >= MaxReferralsPerAgent
        THEN {Out("referral limit")}
        ELSE {Out("treasury low"), Out("fet failed"),
              [st EXCEPT
                 !.referral_counts =
                     Written(ok, Put(@, sender, ValueOf(@, sender, 0) + 1), @),
                 !.referral_map = Written(ok, Put(@, m.referred, sender), @),
                 !.gift = Gift(sender, "referral", ReferralFet)]}

\* the builder_reward branch; has_token is None when the check failed
BuilderReward(st, sender, m, ok) ==
    LET Out(outcome) == [st EXCEPT !.gift = Gift(sender, outcome, 0)]
        cooling == sender \in DOMAIN st.builder_claims
                   /\ now - st.builder_claims[sender]
                        < BuilderCooldownDays * SecondsPerDay
    IN  IF ~m.evm THEN {Out("no wallet")}
        ELSE {Out("token unknown"), Out("no token")}
             \cup (IF cooling THEN {Out("cooldown")}
                   ELSE {Out("treasury low"), Out("fet failed"),
                         [st EXCEPT
                            !.builder_claims = Written(ok, Put(@, sender, now), @),
                            !.gift = Gift(sender, "builder", BuilderFet)]})

\* handle_chat after the rate limit: the branch of the detected intent
Dispatch(st, sender, m, ok) ==
    LET Out(outcome) == [st EXCEPT !.gift = Gift(sender, outcome, 0)]
    IN  CASE m.intent = "help" -> {Out("help")}
          [] m.intent = "greeting" ->
                {Out(IF HasClaimedWelcome(st, sender) THEN "welcome back" ELSE "greeting")}
          [] m.intent = "claim_welcome" -> ClaimWelcome(st, sender, m, ok)
          [] m.intent = "referral" -> Referral(st, sender, m, ok)
          [] m.intent = "builder_reward" -> BuilderReward(st, sender, m, ok)
          [] m.intent = "status" -> {Out("status")}
          [] OTHER ->
                {Out(IF HasClaimedWelcome(st, sender) THEN "unknown, claimed" ELSE "unknown")}

\* the outcomes of handle_chat for one message: the acknowledgement raises,
\* or the sender is refused, or rate limited, or the message is dispatched
GifterHandleChat(sender, m) ==
    LET st    == GifterStorage
        times == SelectSeq(ValueOf(rl, sender, <<>>), LAMBDA t : now - t < Window)
        Out(outcome) == [st EXCEPT !.gift = Gift(sender, outcome, 0)]
    IN  {Out("ack raised")}
        \cup (IF ~VerifyAgentverseAgent(sender) THEN {Out("unverified")}
              ELSE IF Len(times) >= GifterRateLimit THEN {Out("rate limited")}
              ELSE UNION {Dispatch([st EXCEPT !.rl =
                                       Written(ok, Put(@, sender, Append(times, now)), @)],
                                   sender, m, ok) : ok \in BOOLEAN})

\* the referral FET transfers sent to a sender so far
RECURSIVE SumOver(_, _)
SumOver(f, S) ==
    IF S = {} THEN 0
    ELSE LET x == CHOOSE y \in S : TRUE IN f[x] + SumOver(f, S \ {x})

ReferralsPaid(sender) == SumOver(referral_sent[sender], Users)

WelcomesSent == SumOver(welcome_sent, GifterSenders)

\* one message handled: the storage after it and the transfers it sent
GifterHandled(sender, m, out) ==
        /\ welcome_claims' = out.welcome_claims
        /\ daily_claims' = out.daily_claims
        /\ referral_counts' = out.referral_counts
        /\ referral_map' = out.referral_map
        /\ builder_claims' = out.builder_claims
        /\ rl' = out.rl
        /\ out.suspend => sender \notin awaiting
        /\ out.welcome => welcome_sent[sender] < MaxGifts
        /\ awaiting' = IF out.suspend THEN awaiting \cup {sender} ELSE awaiting
        /\ welcome_sent' = IF out.welcome THEN [welcome_sent EXCEPT ![sender] = @ + 1]
                           ELSE welcome_sent
        /\ lastGift' = out.gift
        /\ UNCHANGED <<now, rateVars, quotaVars, cacheVars, monitorVars, chatVars,
                       tierVars, tradingVars, launcherVars, swarmVars, scriptVars, exampleVars>>

\* (the history of the referral transfers is kept by ReferralChat)
GifterChat == \E sender \in GifterSenders, m \in GifterMessages :
    \E out \in GifterHandleChat(sender, m) :
        /\ GifterHandled(sender, m, out)
        /\ UNCHANGED <<referral_sent, builder_sent, lastBuilder>>

\* the messages about referrals
ReferralMessages ==
    {m \in GifterMessages : m.intent \in {"referral", "help"}}

\* handle_chat on these, with the referral transfers it sends recorded
ReferralChat == \E sender \in GifterSenders, m \in ReferralMessages :
    \E out \in GifterHandleChat(sender, m) :
        /\ GifterHandled(sender, m, out)
        /\ out.gift.outcome = "referral"
              => ReferralsPaid(sender) <= MaxReferralsPerAgent
        /\ referral_sent' = IF out.gift.outcome = "referral"
                            THEN [referral_sent EXCEPT ![sender][m.referred] = @ + 1]
                            ELSE referral_sent
        /\ UNCHANGED <<builder_sent, lastBuilder>>

\* the gift records of the storage
GiftRecords ==
    [welcome_claims |-> welcome_claims, daily_claims |-> daily_claims,
     referral_counts |-> referral_counts, referral_map |-> referral_map,
     builder_claims |-> builder_claims]

\* the builder reward transfers sent so far
BuildersPaid ==
    SumOver([u \in GifterSenders |-> Len(builder_sent[u])], GifterSenders)

NoBuilder == [sender |-> "none", at |-> 0, before |-> << >>, fet |-> 0]

\* the messages about the builder reward
BuilderMessages ==
    [intent : {"builder_reward"}, evm : BOOLEAN, referred : {"none"}]

\* handle_chat on these, with the builder transfers it sends recorded
BuilderChat == \E sender \in GifterSenders, m \in BuilderMessages :
    \E out \in GifterHandleChat(sender, m) :
        /\ GifterHandled(sender, m, out)
        /\ out.gift.outcome = "builder" => BuildersPaid < MaxGifts
        /\ builder_sent' = IF out.gift.outcome = "builder"
                           THEN [builder_sent EXCEPT ![sender] = Append(@, now)]
                           ELSE builder_sent
        /\ lastBuilder' = [sender |-> sender, at |-> now,
                           before |-> GiftRecords, fet |-> out.gift.fet]
        /\ UNCHANGED referral_sent

\* time passes between two messages
BuilderSteps == {3 * SecondsPerDay, 4 * SecondsPerDay}

BuilderTick == \E d \in BuilderSteps :
    /\ now + d <= MaxBuilderDays * SecondsPerDay
    /\ now' = now + d
    /\ lastBuilder' = NoBuilder
    /\ lastGift' = NoGift
    /\ UNCHANGED <<welcome_claims, daily_claims, referral_counts, referral_map,
                   builder_claims, rl, awaiting, welcome_sent, referral_sent,
                   builder_sent, rateVars, quotaVars, cacheVars, monitorVars,
                   chatVars, tierVars, tradingVars, launcherVars, swarmVars,
                   scriptVars, exampleVars>>

\* the handler suspended in the reply after a failed BNB transfer goes on:
\* the reply raises and ends the handler, or the claim is recorded
GifterResume == \E sender \in GifterSenders, raises \in BOOLEAN, ok \in BOOLEAN :
    LET st   == GifterStorage
        done == IF raises THEN st ELSE RecordWelcome(st, sender, ok)
    IN  /\ sender \in awaiting
        /\ awaiting' = awaiting \ {sender}
        /\ welcome_claims' = done.welcome_claims
        /\ daily_claims' = done.daily_claims
        /\ lastGift' = Gift(sender,
                            IF raises THEN "reply raised"
                            ELSE IF ok THEN "recorded" ELSE "record failed", 0)
        /\ UNCHANGED <<now, referral_counts, referral_map, builder_claims, rl,
                       welcome_sent, referral_sent, builder_sent, lastBuilder,
                       rateVars, quotaVars, cacheVars,
                       monitorVars,
                       chatVars, tierVars, tradingVars, launcherVars, swarmVars, scriptVars, exampleVars>>

----------------------------------------------------------------------------
(* Price monitor: watches, price history and the periodic sweep.  The        *)
(* command handlers are modelled from the point where handle_chat has passed *)
(* its gates and dispatches on the command.                                  *)

Abs(x) == IF x < 0 THEN -x ELSE x

\* fetch_token_price: the price the API reports, None when there is none
FetchTokenPrice(token) == feed[token]

\* reading watches[user_id] creates the key
Touch(order, user_id) ==
    IF \E i \in 1..Len(order) : order[i] = user_id THEN order
    ELSE Append(order, user_id)

\* record_price: append, then keep the last HistoryCap prices
RecordPrice(cache, token, price) ==
    LET history == Append(cache[token], price)
    IN  [cache EXCEPT ![token] =
            IF Len(history) > HistoryCap
            THEN SubSeq(history, Len(history) - HistoryCap + 1, Len(history))
            ELSE history]

\* the baseline check_alert compares against: history[0]["price"]
Baseline(cache, token) == cache[token][1]

\* check_alert: abs((current - baseline) / baseline * 100) >= threshold_pct
Moved(current, baseline, threshold_pct) ==
    Abs(current - baseline) * 100 >= threshold_pct * baseline

CheckAlert(cache, token, current, threshold_pct) ==
    IF cache[token] = <<>> THEN FALSE
    ELSE IF Baseline(cache, token) = 0 THEN FALSE
    ELSE Moved(current, Baseline(cache, token), threshold_pct)

NoWatch == [address |-> "none", threshold |-> 0, baseline |-> 0, alerted |-> FALSE]

\* float(): the strings it converts, with their values; any other raises
Floats == [s \in {"75"} |-> 75]

NoResponse == [cmd |-> "none", outcome |-> "none", end |-> FALSE]

NoRemove == [user |-> "none", target |-> <<>>, before |-> << >>]

\* what handle_chat does with the handler's result: the response goes to
\* reply(); an exception leaves handle_chat before its reply
\* (the dispatched commands are all replied to with end=True)
Response(cmd, outcome) ==
    [cmd |-> cmd, outcome |-> outcome, end |-> outcome # "raised"]

\* reply(ctx, sender, text, end): the end-session marker is added when end
Reply(cmd, text, end) == [cmd |-> cmd, outcome |-> text, end |-> end]

\* the first words handle_chat dispatches on without a handler of their own
\* effect on the prices: help, ?, list, and a word that is no command
PlainCommands == {"help", "?", "list", "hello"}

\* handle_chat for these: help and list reply and return before the quota;
\* any other word falls to the else branch and the common reply
HandlePlain(user_id, cmd) ==
    IF cmd \in {"help", "?"}
    THEN /\ lastResponse' = Reply(cmd, "help text", FALSE)
         /\ UNCHANGED <<watches, watchOrder>>
    ELSE IF cmd = "list"
    THEN /\ lastResponse' = Reply(cmd, "watch list", FALSE)
         /\ watches' = Put(watches, user_id, ListOf(watches, user_id))
         /\ watchOrder' = Touch(watchOrder, user_id)
    ELSE /\ lastResponse' = Reply(cmd, "help text", TRUE)
         /\ UNCHANGED <<watches, watchOrder>>

\* handle_watch, args = "<token> <arg>" (arg may be absent)
HandleWatch(user_id, token, arg, tier) ==
    IF arg # "" /\ arg \notin DOMAIN Floats
    THEN /\ lastResponse' = Response("watch", "raised")
         /\ UNCHANGED <<watches, watchOrder, price_cache>>
    ELSE
    LET threshold == IF arg # "" THEN Floats[arg] ELSE DefaultThresholdPct
    IN
    IF tier = "free" /\ Len(ListOf(watches, user_id)) >= FreeWatches
    THEN /\ watches' = Put(watches, user_id, ListOf(watches, user_id))
         /\ watchOrder' = Touch(watchOrder, user_id)
         /\ lastResponse' = Response("watch", "limit")
         /\ UNCHANGED price_cache
    ELSE LET order == IF tier = "free" THEN Touch(watchOrder, user_id)
                      ELSE watchOrder
             price == FetchTokenPrice(token)
         IN  IF price = NoPrice
             THEN /\ watchOrder' = order
                  /\ watches' = IF tier = "free"
                                THEN Put(watches, user_id, ListOf(watches, user_id))
                                ELSE watches
                  /\ lastResponse' = Response("watch", "no price")
                  /\ UNCHANGED price_cache
             ELSE /\ price_cache' = RecordPrice(price_cache, token, price)
                  /\ watchOrder' = Touch(order, user_id)
                  /\ lastResponse' = Response("watch", "watching")
                  /\ watches' = Put(watches, user_id,
                         Append(ListOf(watches, user_id),
                                [address |-> token, threshold |-> threshold,
                                 baseline |-> price, alerted |-> FALSE]))

\* handle_check: the first watch of the user for the token gives the threshold
HandleCheck(user_id, token) ==
    LET price == FetchTokenPrice(token)
    IN  IF price = NoPrice
        THEN /\ lastResponse' = Response("check", "no price")
             /\ UNCHANGED <<watches, watchOrder, price_cache, lastDecisions>>
        ELSE LET cache  == RecordPrice(price_cache, token, price)
                 list   == ListOf(watches, user_id)
                 found  == {i \in 1..Len(list) : list[i].address = token}
                 idx    == IF found = {} THEN 0
                           ELSE CHOOSE i \in found : \A j \in found : i <= j
                 watch  == IF idx = 0 THEN NoWatch ELSE list[idx]
                 thr    == IF idx = 0 THEN DefaultThresholdPct ELSE watch.threshold
             IN  /\ price_cache' = cache
                 /\ lastResponse' = Response("check", "price")
                 /\ watches' = Put(watches, user_id, list)
                 /\ watchOrder' = Touch(watchOrder, user_id)
                 /\ lastDecisions' =
                       IF idx = 0 THEN {}
                       ELSE {[by |-> "check", user |-> user_id, idx |-> idx,
                              price |-> price, before |-> watch.alerted,
                              alerted |-> CheckAlert(cache, token, price, thr)]}

\* the (user, index) pairs of  for user_id, user_watches in watches.items():
\*                                 for watch in user_watches:
RECURSIVE WatchItems(_)
WatchItems(order) ==
    IF order = <<>> THEN <<>>
    ELSE [i \in 1..Len(watches[order[1]]) |-> [user |-> order[1], idx |-> i]]
         \o WatchItems(Tail(order))

\* the body of the sweep's loops, over the remaining watches
RECURSIVE SweepWatches(_, _, _)
SweepWatches(items, cache, decisions) ==
    IF items = <<>> THEN [cache |-> cache, decisions |-> decisions]
    ELSE LET watch == watches[items[1].user][items[1].idx]
             price == FetchTokenPrice(watch.address)
         IN  IF price = NoPrice
             THEN SweepWatches(Tail(items), cache, decisions)
             ELSE LET recorded == RecordPrice(cache, watch.address, price)
                  IN  SweepWatches(Tail(items), recorded,
                        decisions \cup
                          {[by |-> "sweep", user |-> items[1].user,
                            idx |-> items[1].idx, price |-> price,
                            before |-> watch.alerted,
                            alerted |-> CheckAlert(recorded, watch.address, price,
                                                   watch.threshold)]})

Watch == \E u \in Users, t \in Tokens, arg \in ThresholdArgs, tier \in Tiers :
    /\ lastRemove' = NoRemove
    /\ Len(WatchItems(watchOrder)) < MaxWatches
    /\ HandleWatch(u, t, arg, tier)
    /\ lastDecisions' = {}
    /\ UNCHANGED <<now, feed, rateVars, quotaVars, cacheVars, chatVars, tierVars, gifterVars,
                 tradingVars, launcherVars, swarmVars, scriptVars, exampleVars>>

PlainCommand == \E u \in Users, cmd \in PlainCommands :
    /\ lastRemove' = NoRemove
    /\ HandlePlain(u, cmd)
    /\ lastDecisions' = {}
    /\ UNCHANGED <<now, feed, price_cache, rateVars, quotaVars, cacheVars, chatVars,
                   tierVars, gifterVars, tradingVars, launcherVars, swarmVars, scriptVars, exampleVars>>

CheckPrice == \E u \in Users, t \in Tokens :
    /\ lastRemove' = NoRemove
    /\ HandleCheck(u, t)
    /\ UNCHANGED <<now, feed, rateVars, quotaVars, cacheVars, chatVars, tierVars, gifterVars,
                 tradingVars, launcherVars, swarmVars, scriptVars, exampleVars>>

\* check_all_watches: the periodic sweep; the history field alerted of a watch
\* records that a sweep has raised its alert
CheckAllWatches ==
    LET swept == SweepWatches(WatchItems(watchOrder), price_cache, {})
        Alerted(u, i) == \E d \in swept.decisions :
                            d.user = u /\ d.idx = i /\ d.alerted
    IN  /\ price_cache' = swept.cache
        /\ lastDecisions' = swept.decisions
        /\ lastResponse' = NoResponse
        /\ lastRemove' = NoRemove
        /\ watches' = [u \in DOMAIN watches |->
              [i \in 1..Len(watches[u]) |->
                  [watches[u][i] EXCEPT !.alerted = @ \/ Alerted(u, i)]]]
        /\ UNCHANGED <<now, feed, watchOrder, rateVars, quotaVars, cacheVars, chatVars, tierVars, gifterVars,
                     tradingVars, launcherVars, swarmVars, scriptVars, exampleVars>>

\* the price API reports another price, or none
FeedChange == \E t \in Tokens, p \in Prices \cup {NoPrice} :
    /\ feed[t] # p
    /\ feed' = [feed EXCEPT ![t] = p]
    /\ lastDecisions' = {}
    /\ lastResponse' = NoResponse
    /\ lastRemove' = NoRemove
    /\ UNCHANGED <<now, watches, watchOrder, price_cache, rateVars, quotaVars,
                   cacheVars, chatVars, tierVars, gifterVars,
                   tradingVars, launcherVars, swarmVars, scriptVars, exampleVars>>

----------------------------------------------------------------------------
(* Chat handlers: what a handler sends back for one received ChatMessage.    *)
(* ctx.send either delivers or raises; a send that raised sent nothing.      *)

\* the stage of each step handle_chat passes for one message: received,
\* acknowledged, gated and classified, handled, replied
Stage(step) ==
    CASE step = "received"     -> 1
      [] step = "acknowledged" -> 2
      [] step \in {"security", "builtin", "quota"} -> 3
      [] step = "business"     -> 4
      [] step = "replied"      -> 5

ChatAcknowledgement(acknowledged_msg_id) ==
    [type |-> "ack", acknowledged_msg_id |-> acknowledged_msg_id]

\* a ChatMessage the agent sends: its msg_id is the given one, or a fresh
\* uuid4() written 0; end tells whether it carries EndSessionContent
ChatMessage(msg_id, text, end) ==
    [type |-> "chat", msg_id |-> msg_id, text |-> text, end |-> end]

NoHandled == [agent |-> "none", sender |-> "none", msg_id |-> 0,
              content |-> <<>>, steps |-> <<>>,
              reply |-> ChatMessage(0, "none", FALSE), sends |-> <<>>,
              raised |-> FALSE, tokenized |-> FALSE]

\* the sends of one handler that raise: none, or one of them
SendFailures == {{}, {1}, {2}}

\* await ctx.send(...) of the items in order, each inside try/except
SendTwice(items, raises) ==
    LET sent == {i \in 1..Len(items) : i \notin raises}
        F[i \in 0..Len(items)] ==
            IF i = 0 THEN <<>>
            ELSE IF i \in sent THEN F[i - 1] \o <<items[i], items[i]>>
            ELSE F[i - 1]
    IN  F[Len(items)]

SendEach(items, raises) ==
    LET sent == {i \in 1..Len(items) : i \notin raises}
        F[i \in 0..Len(items)] ==
            IF i = 0 THEN <<>>
            ELSE IF i \in sent THEN Append(F[i - 1], items[i]) ELSE F[i - 1]
    IN  F[Len(items)]

\* text[:BUSINESS["max_input_length"]]
Truncate(text) ==
    IF Len(text) > MaxInputLength THEN SubSeq(text, 1, MaxInputLength) ELSE text

\* "tokenize" in lower
Mentions(text, word) == \E i \in 1..Len(text) : text[i] = word

QuotaError(tier) ==
    IF tier = "free" THEN "Free limit reached." ELSE "Daily limit reached."

OwnerOnly == "Only the agent owner can trigger tokenization."

Apology == "Something went wrong processing your request. Please try again."

\* the steps of one run of handle_chat: the acknowledgement first, then the
\* steps of the path taken, then the one reply
StepsOf(path) == <<"received", "acknowledged">> \o path \o <<"replied">>

\* a handler path that does not reach check_quota
NoQuotaCheck ==
    /\ lastQuota' = NoQuota
    /\ UNCHANGED <<usage, quotaCalls, rejectedOn>>

\* business template, handle_chat.  The tier is what revenue.get_tier returns
\* and businessRaises whether business.handle raises; the counters of Health
\* only feed the text of the status reply and are left out.
TemplateHandleChat(sender, msg_id, content, raises) ==
    LET text == Truncate(Strip(content))
        ack  == ChatAcknowledgement(msg_id)
        Done(reply, tokenized, path) ==
            handled' = [agent |-> TemplateAgent, sender |-> sender,
                        msg_id |-> msg_id, content |-> content,
                        steps |-> StepsOf(path), reply |-> reply,
                        sends |-> SendEach(<<ack, reply>>, raises),
                        raised |-> raises # {}, tokenized |-> tokenized]
    IN  /\ SecurityCheck(sender, text)
        /\ IF lastCheck'.error # "none"
           THEN /\ Done(ChatMessage(0, lastCheck'.error, TRUE), FALSE,
                        <<"security">>)
                /\ NoQuotaCheck
           ELSE IF lastCheck'.clean = <<"help">>
           THEN /\ Done(ChatMessage(0, "help", FALSE), FALSE,
                        <<"security", "builtin">>)
                /\ NoQuotaCheck
           ELSE IF lastCheck'.clean = <<"status">>
           THEN /\ Done(ChatMessage(0, "status", FALSE), FALSE,
                        <<"security", "builtin">>)
                /\ NoQuotaCheck
           ELSE IF Mentions(lastCheck'.clean, "tokenize")
           THEN /\ IF OWNER_ADDRESS # "" /\ sender # OWNER_ADDRESS
                   THEN Done(ChatMessage(0, OwnerOnly, TRUE), FALSE,
                             <<"security", "builtin">>)
                   ELSE Done(ChatMessage(0, "tokenized", TRUE), TRUE,
                             <<"security", "builtin">>)
                /\ NoQuotaCheck
           ELSE \E tier \in Tiers :
                /\ CheckQuota(sender, tier)
                /\ IF ~lastQuota'.allowed
                   THEN Done(ChatMessage(0, QuotaError(tier), TRUE), FALSE,
                             <<"security", "builtin", "quota">>)
                   ELSE \E businessRaises \in BOOLEAN :
                        Done(ChatMessage(0, IF businessRaises THEN Apology
                                            ELSE "response", TRUE), FALSE,
                             <<"security", "builtin", "quota", "business">>)

\* joke teller, handle_message: the joke, then the end of the session, both
\* under the msg_id of the received message; a send that raises ends the handler
JokeHandleMessage(sender, msg_id, raises) ==
    LET items == <<ChatMessage(msg_id, "joke", FALSE),
                   ChatMessage(msg_id, "", TRUE)>>
        upto  == IF raises = {} THEN Len(items)
                 ELSE (CHOOSE i \in raises : \A j \in raises : i <= j) - 1
    IN  handled' = [agent |-> JokeTeller, sender |-> sender, msg_id |-> msg_id,
                    content |-> <<>>, steps |-> <<>>, reply |-> items[1],
                    sends |-> SubSeq(items, 1, upto),
                    raised |-> raises # {}, tokenized |-> FALSE]

HandleChat ==
    \E sender \in Users, msg_id \in MsgIds, content \in ChatTexts,
       raises \in SendFailures :
        /\ TemplateHandleChat(sender, msg_id, content, raises)
        /\ UNCHANGED <<now, OWNER_ADDRESS, cacheVars, monitorVars, tierVars, gifterVars,
                     tradingVars, launcherVars, swarmVars, scriptVars, exampleVars>>

HandleMessage ==
    \E sender \in Users, msg_id \in MsgIds, raises \in SendFailures :
        /\ JokeHandleMessage(sender, msg_id, raises)
        /\ lastCheck' = NoCheck
        /\ NoQuotaCheck
        /\ UNCHANGED <<now, OWNER_ADDRESS, requests, check_count, admitted,
                       cacheVars, monitorVars, tierVars, gifterVars,
                       tradingVars, launcherVars, swarmVars, scriptVars, exampleVars>>

----------------------------------------------------------------------------
(* Texts.  A text is the sequence of its characters, so that  w in t  of the *)
(* intent detectors is the search for a substring.                           *)

UpperLetters == <<"A", "B", "C", "D", "E", "F", "G", "H", "I", "J", "K", "L", "M", "N", "O", "P", "Q", "R", "S", "T", "U", "V", "W", "X", "Y", "Z">>  \* 'ABCDEFGHIJKLMNOPQRSTUVWXYZ'

LowerLetters == <<"a", "b", "c", "d", "e", "f", "g", "h", "i", "j", "k", "l", "m", "n", "o", "p", "q", "r", "s", "t", "u", "v", "w", "x", "y", "z">>  \* 'abcdefghijklmnopqrstuvwxyz'

Digits == <<"0", "1", "2", "3", "4", "5", "6", "7", "8", "9">>  \* '0123456789'

IsIn(seq, c) == \E i \in 1..Len(seq) : seq[i] = c

Index(seq, c) == CHOOSE i \in 1..Len(seq) : seq[i] = c

\* str.lower() and str.upper()
LowerText(text) ==
    [i \in 1..Len(text) |->
        IF IsIn(UpperLetters, text[i])
        THEN LowerLetters[Index(UpperLetters, text[i])] ELSE text[i]]

UpperText(text) ==
    [i \in 1..Len(text) |->
        IF IsIn(LowerLetters, text[i])
        THEN UpperLetters[Index(LowerLetters, text[i])] ELSE text[i]]

\* w in t
Contains(t, w) ==
    \E i \in 1..(Len(t) - Len(w) + 1) : SubSeq(t, i, i + Len(w) - 1) = w

\* any(w in t for w in ws)
AnyIn(t, ws) == \E w \in ws : Contains(t, w)

EndsWith(t, w) ==
    Len(t) >= Len(w) /\ SubSeq(t, Len(t) - Len(w) + 1, Len(t)) = w

\* the length of the longest prefix of t made of the characters of class
PrefixLen(t, class) ==
    IF \E i \in 1..Len(t) : t[i] \notin class
    THEN (CHOOSE i \in 1..Len(t) :
              t[i] \notin class /\ \A j \in 1..(i - 1) : t[j] \in class) - 1
    ELSE Len(t)

DigitSet == {Digits[i] : i \in 1..Len(Digits)}

\* int() of a string of digits
RECURSIVE ToInt(_)
ToInt(ds) ==
    IF ds = <<>> THEN 0
    ELSE ToInt(SubSeq(ds, 1, Len(ds) - 1)) * 10 + (Index(Digits, ds[Len(ds)]) - 1)

\* str.split()
RECURSIVE SplitWords(_)
SplitWords(t) ==
    IF t = <<>> THEN <<>>
    ELSE IF t[1] = " " THEN SplitWords(Tail(t))
    ELSE LET n == PrefixLen(t, {t[i] : i \in 1..Len(t)} \ {" "})
         IN  <<SubSeq(t, 1, n)>> \o SplitWords(SubSeq(t, n + 1, Len(t)))

----------------------------------------------------------------------------
(* Trading agent: intent detection and the alert commands.  handle_chat is   *)
(* modelled from the point where the sender is verified and security.check   *)
(* has passed the message.                                                   *)

\* the messages: the commands of the help text, and some others
WatchAbove == <<"w", "a", "t", "c", "h", " ", "F", "E", "T", " ", "a", "b", "o", "v", "e", " ", "5">>  \* 'watch FET above 5'

WatchBelow == <<"w", "a", "t", "c", "h", " ", "F", "E", "T", " ", "b", "e", "l", "o", "w", " ", "5">>  \* 'watch FET below 5'

MyAlerts == <<"m", "y", " ", "a", "l", "e", "r", "t", "s">>  \* 'my alerts'

RemoveAlert1 == <<"r", "e", "m", "o", "v", "e", " ", "a", "l", "e", "r", "t", " ", "#", "1">>  \* 'remove alert #1'

TradingTexts ==
    {WatchAbove, WatchBelow, MyAlerts, RemoveAlert1,
     <<"s", "i", "g", "n", "a", "l", "s">>,  \* 'signals'
     <<"p", "o", "r", "t", "f", "o", "l", "i", "o">>,  \* 'portfolio'
     <<"s", "t", "a", "t", "u", "s">>,  \* 'status'
     <<"t", "o", "k", "e", "n", "i", "z", "e">>,  \* 'tokenize'
     <<"h", "e", "l", "p">>,  \* 'help'
     <<"h", "i">>,  \* 'hi'
     <<"w", "a", "t", "c", "h">>,  \* 'watch'
     <<"b", "u", "y", " ", "F", "E", "T">>}  \* 'buy FET'

\* the commands the help text lists, with the intent each is described by
AdvertisedCommands ==
    {[text |-> WatchAbove, intent |-> "watch"],
     [text |-> WatchBelow, intent |-> "watch"],
     [text |-> MyAlerts, intent |-> "alerts"],
     [text |-> RemoveAlert1, intent |-> "remove"],
     [text |-> <<"s", "i", "g", "n", "a", "l", "s">>, intent |-> "signals"],  \* 'signals'
     [text |-> <<"p", "o", "r", "t", "f", "o", "l", "i", "o">>, intent |-> "portfolio"],  \* 'portfolio'
     [text |-> <<"s", "t", "a", "t", "u", "s">>, intent |-> "status"],  \* 'status'
     [text |-> <<"t", "o", "k", "e", "n", "i", "z", "e">>, intent |-> "tokenize"]}  \* 'tokenize'

\* re.search(r"#?(\d+)", t): the first run of digits, 0 when there is none
FirstNumber(t) ==
    IF \E i \in 1..Len(t) : t[i] \in DigitSet
    THEN LET i == CHOOSE i \in 1..Len(t) :
                     t[i] \in DigitSet /\ \A j \in 1..(i - 1) : t[j] \notin DigitSet
             rest == SubSeq(t, i, Len(t))
         IN  ToInt(SubSeq(rest, 1, PrefixLen(rest, DigitSet)))
    ELSE 0

Intent(intent, alert_id, details) ==
    [intent |-> intent, alert_id |-> alert_id, details |-> details]

\* detect_intent: the first test that matches decides; alert_id 0 stands for
\* the empty details of a remove without a number
TradingDetectIntent(text) ==
    LET t == LowerText(Strip(text))
    IN  IF AnyIn(t, {<<"w", "a", "t", "c", "h">>,  \* 'watch'
                     <<"a", "l", "e", "r", "t">>,  \* 'alert'
                     <<"n", "o", "t", "i", "f", "y">>,  \* 'notify'
                     <<"t", "e", "l", "l", " ", "m", "e", " ", "w", "h", "e", "n">>})  \* 'tell me when'
        THEN Intent("watch", 0, t)
        ELSE IF AnyIn(t, {<<"r", "e", "m", "o", "v", "e", " ", "a", "l", "e", "r", "t">>,  \* 'remove alert'
                          <<"d", "e", "l", "e", "t", "e", " ", "a", "l", "e", "r", "t">>,  \* 'delete alert'
                          <<"c", "a", "n", "c", "e", "l", " ", "a", "l", "e", "r", "t">>,  \* 'cancel alert'
                          <<"s", "t", "o", "p", " ", "w", "a", "t", "c", "h", "i", "n", "g">>})  \* 'stop watching'
        THEN Intent("remove", FirstNumber(t), <<>>)
        ELSE IF AnyIn(t, {<<"m", "y", " ", "a", "l", "e", "r", "t", "s">>,  \* 'my alerts'
                          <<"l", "i", "s", "t", " ", "a", "l", "e", "r", "t", "s">>,  \* 'list alerts'
                          <<"a", "c", "t", "i", "v", "e", " ", "a", "l", "e", "r", "t", "s">>,  \* 'active alerts'
                          <<"s", "h", "o", "w", " ", "a", "l", "e", "r", "t", "s">>})  \* 'show alerts'
        THEN Intent("alerts", 0, <<>>)
        ELSE IF AnyIn(t, {<<"s", "i", "g", "n", "a", "l", "s">>,  \* 'signals'
                          <<"s", "i", "g", "n", "a", "l">>,  \* 'signal'
                          <<"o", "p", "p", "o", "r", "t", "u", "n", "i", "t", "i", "e", "s">>,  \* 'opportunities'
                          <<"a", "l", "p", "h", "a">>})  \* 'alpha'
        THEN Intent("signals", 0, <<>>)
        ELSE IF AnyIn(t, {<<"p", "o", "r", "t", "f", "o", "l", "i", "o">>,  \* 'portfolio'
                          <<"m", "y", " ", "t", "o", "k", "e", "n", "s">>,  \* 'my tokens'
                          <<"m", "y", " ", "h", "o", "l", "d", "i", "n", "g", "s">>})  \* 'my holdings'
        THEN Intent("portfolio", 0, <<>>)
        ELSE IF AnyIn(t, {<<"h", "e", "l", "p">>,  \* 'help'
                          <<"w", "h", "a", "t", " ", "c", "a", "n">>,  \* 'what can'
                          <<"h", "o", "w", " ", "d", "o", "e", "s">>,  \* 'how does'
                          <<"?">>})  \* '?'
        THEN Intent("help", 0, <<>>)
        ELSE IF AnyIn(t, {<<"s", "t", "a", "t", "u", "s">>,  \* 'status'
                          <<"s", "t", "a", "t", "s">>,  \* 'stats'
                          <<"h", "e", "a", "l", "t", "h">>})  \* 'health'
        THEN Intent("status", 0, <<>>)
        ELSE IF Contains(t, <<"t", "o", "k", "e", "n", "i", "z", "e">>)  \* 'tokenize'
        THEN Intent("tokenize", 0, <<>>)
        ELSE IF Len(t) < 20 /\ AnyIn(t, {<<"h", "i">>,  \* 'hi'
                                         <<"h", "e", "l", "l", "o">>,  \* 'hello'
                                         <<"h", "e", "y">>,  \* 'hey'
                                         <<"y", "o">>,  \* 'yo'
                                         <<"s", "u", "p">>})  \* 'sup'
        THEN Intent("greeting", 0, <<>>)
        ELSE Intent("unknown", 0, t)

NoMatch == [token |-> <<>>, condition |-> "none", threshold |-> 0]

\* float() of a string of digits (the thresholds of the messages are whole)
Float(s) == ToInt(s)

\* parse_watch_command.  The pattern is
\*   (watch|alert|notify|tell me when) (when |if |me when |me if )?
\*   <token> (go |goes |is |reach |reaches )? (above|below|over|under) <number>
\* with white space between the parts, so it is matched on the words of the
\* text: the keyword ends the word k, fill words may follow, then the token, a
\* verb may follow, then the condition and a word that starts with digits.
\* The leftmost keyword that gives a match wins, then the pattern's preference
\* (fill words taken before fill words skipped, verb taken before verb skipped).
ParseWatchCommand(text) ==
    LET ws == SplitWords(LowerText(Strip(text)))
        n  == Len(ws)
        KeywordAt(k) ==
            \/ \E w \in {<<"w", "a", "t", "c", "h">>,  \* 'watch'
                         <<"a", "l", "e", "r", "t">>,  \* 'alert'
                         <<"n", "o", "t", "i", "f", "y">>} : EndsWith(ws[k], w)  \* 'notify'
            \/ k >= 3 /\ EndsWith(ws[k - 2], <<"t", "e", "l", "l">>)  \* 'tell'
                      /\ ws[k - 1] = <<"m", "e">> /\ ws[k] =  \* 'me'
                                     <<"w", "h", "e", "n">>  \* 'when'
        \* fill: 1 = "when" or "if", 2 = "me when" or "me if", 3 = none
        FillOk(k, fill) ==
            CASE fill = 1 -> k + 1 <= n /\ ws[k + 1] \in {<<"w", "h", "e", "n">>,  \* 'when'
                                                          <<"i", "f">>}  \* 'if'
              [] fill = 2 -> k + 2 <= n /\ ws[k + 1] = <<"m", "e">>  \* 'me'
                                        /\ ws[k + 2] \in {<<"w", "h", "e", "n">>,  \* 'when'
                                                          <<"i", "f">>}  \* 'if'
              [] OTHER    -> TRUE
        TokenAt(k, fill) == k + 1 + (IF fill = 3 THEN 0 ELSE fill)
        \* verb: 1 = a verb follows the token, 2 = none
        VerbOk(p, verb) ==
            verb = 2 \/ (p + 1 <= n /\ ws[p + 1] \in
                            {<<"g", "o">>,  \* 'go'
                             <<"g", "o", "e", "s">>,  \* 'goes'
                             <<"i", "s">>,  \* 'is'
                             <<"r", "e", "a", "c", "h">>,  \* 'reach'
                             <<"r", "e", "a", "c", "h", "e", "s">>})  \* 'reaches'
        CondAt(p, verb) == p + 1 + (IF verb = 1 THEN 1 ELSE 0)
        Matches(k, fill, verb) ==
            LET p == TokenAt(k, fill)
                c == CondAt(p, verb)
            IN  /\ KeywordAt(k) /\ FillOk(k, fill)
                /\ p <= n /\ VerbOk(p, verb)
                /\ c + 1 <= n
                /\ ws[c] \in {<<"a", "b", "o", "v", "e">>,  \* 'above'
                              <<"b", "e", "l", "o", "w">>,  \* 'below'
                              <<"o", "v", "e", "r">>,  \* 'over'
                              <<"u", "n", "d", "e", "r">>}  \* 'under'
                /\ PrefixLen(ws[c + 1], DigitSet \cup {"."}) > 0
        tries == {m \in (1..n) \X (1..3) \X (1..2) : Matches(m[1], m[2], m[3])}
        Before(a, b) ==
            \/ a[1] < b[1]
            \/ a[1] = b[1] /\ a[2] < b[2]
            \/ a[1] = b[1] /\ a[2] = b[2] /\ a[3] <= b[3]
    IN  IF tries = {} THEN NoMatch
        ELSE LET m == CHOOSE a \in tries : \A b \in tries : Before(a, b)
                 p == TokenAt(m[1], m[2])
                 c == CondAt(p, m[3])
             IN  [token |-> UpperText(ws[p]),
                  condition |-> IF ws[c] \in {<<"a", "b", "o", "v", "e">>,  \* 'above'
                                              <<"o", "v", "e", "r">>}  \* 'over'
                                THEN "above" ELSE "below",
                  threshold |-> Float(SubSeq(ws[c + 1], 1,
                                    PrefixLen(ws[c + 1], DigitSet \cup {"."})))]

\* get_alerts
GetAlerts(sender) == ListOf(alerts, sender)

\* create_alert: the new list of the sender, and whether an alert was added
CreateAlert(sender, token_name, condition, threshold, tier) ==
    LET list       == GetAlerts(sender)
        max_alerts == IF tier = "premium" THEN PremiumAlerts ELSE FreeAlerts
    IN  IF Len(list) >= max_alerts
        THEN [success |-> FALSE, alerts |-> list]
        ELSE [success |-> TRUE,
              alerts |-> Append(list,
                  [id |-> Len(list) + 1, token |-> token_name,
                   condition |-> condition, threshold |-> threshold,
                   triggered |-> FALSE, active |-> TRUE])]

\* register_alert_owner
RegisterAlertOwner(owners, sender) ==
    IF IsIn(owners, sender) THEN owners ELSE Append(owners, sender)

\* remove_alert: the first active alert with the id is made inactive
RemoveAlert(sender, alert_id) ==
    LET list  == GetAlerts(sender)
        found == {i \in 1..Len(list) : list[i].id = alert_id /\ list[i].active}
    IN  IF found = {} THEN [success |-> FALSE, alerts |-> list]
        ELSE LET i == CHOOSE i \in found : \A j \in found : i <= j
             IN  [success |-> TRUE,
                  alerts |-> [list EXCEPT ![i].active = FALSE]]

\* the active alerts of a list, as format_alerts and the portfolio count them
ActiveAlerts(list) == {i \in 1..Len(list) : list[i].active}

NoCreate == [sender |-> "none", tier |-> "none", success |-> FALSE,
             active_before |-> 0]

\* what a successful create_alert leaves in storage, and the alert reported
\* to the sender as created
ApplyCreate(sender, tier, created) ==
    /\ lastCreate' = [sender |-> sender, tier |-> tier,
                      success |-> created.success,
                      active_before |-> Cardinality(ActiveAlerts(GetAlerts(sender)))]
    /\ IF created.success
       THEN /\ alerts' = Put(alerts, sender, created.alerts)
            /\ alert_owners' = RegisterAlertOwner(alert_owners, sender)
            /\ alerts_created' = alerts_created + 1
            /\ made' = made \cup {[owner |-> sender, id |-> Len(created.alerts)]}
       ELSE UNCHANGED <<alerts, alert_owners, alerts_created, made>>

\* what a remove_alert call leaves in storage
ApplyRemove(sender, removed) ==
    /\ alerts' = IF removed.success THEN Put(alerts, sender, removed.alerts)
                 ELSE alerts
    /\ UNCHANGED <<alert_owners, alerts_created, made>>

NoRouted == [sender |-> "none", text |-> <<>>, intent |-> "none",
             outcome |-> "none"]

\* detect_intent and parse_watch_command of each message, computed once
DetectedIntents ==
    [text \in TradingTexts |-> TradingDetectIntent(Strip(text))]

ParsedWatches ==
    [text \in TradingTexts |-> ParseWatchCommand(Strip(text))]

Routed(sender, text, intent, outcome) ==
    [sender |-> sender, text |-> text, intent |-> intent, outcome |-> outcome]

\* handle_chat, from detect_intent on
TradingHandleChat(sender, text, tier) ==
    LET d      == DetectedIntents[text]
        intent == d.intent
        Same   == /\ UNCHANGED <<alerts, alert_owners, alerts_created, made>>
                  /\ lastCreate' = NoCreate
        Done(outcome) == lastRouted' = Routed(sender, text, intent, outcome)
    IN  CASE intent \in {"help", "greeting", "status", "unknown"} ->
                Same /\ Done(intent)
          [] intent = "tokenize" ->
                /\ Same
                /\ Done(IF OWNER_ADDRESS # "" /\ sender # OWNER_ADDRESS
                        THEN "owner only" ELSE "tokenized")
          [] intent = "watch" ->
                LET parsed  == ParsedWatches[text]
                    created == CreateAlert(sender, parsed.token,
                                   parsed.condition, parsed.threshold, tier)
                IN  IF parsed.token = <<>> THEN Same /\ Done("watch usage")
                    ELSE /\ ApplyCreate(sender, tier, created)
                         /\ Done(IF created.success THEN "alert created"
                                 ELSE "alert limit")
          [] intent = "remove" ->
                LET removed == RemoveAlert(sender, d.alert_id)
                IN  IF d.alert_id = 0 THEN Same /\ Done("remove usage")
                    ELSE /\ ApplyRemove(sender, removed)
                         /\ lastCreate' = NoCreate
                         /\ Done(IF removed.success THEN "alert removed"
                                 ELSE "alert not found")
          [] intent = "alerts" -> Same /\ Done("alerts listed")
          [] intent \in {"signals", "portfolio"} ->
                Same /\ Done(IF tier # "premium" THEN "premium only" ELSE intent)

TradingChat == \E sender \in Users, text \in TradingTexts, tier \in Tiers :
    /\ TradingHandleChat(sender, text, tier)
    /\ UNCHANGED <<now, rateVars, quotaVars, cacheVars, monitorVars, chatVars,
                   tierVars, gifterVars, launcherVars, swarmVars, scriptVars, exampleVars, tokenData, sweep,
                   lastFired>>

\* create_alert and remove_alert, called as the watch and the remove branch
\* of handle_chat call them
CreateAlertCall ==
    \E sender \in Users, text \in {WatchAbove, WatchBelow}, tier \in Tiers :
        LET parsed == ParsedWatches[text]
        IN  /\ ApplyCreate(sender, tier,
                   CreateAlert(sender, parsed.token, parsed.condition,
                               parsed.threshold, tier))
            /\ UNCHANGED <<now, rateVars, quotaVars, cacheVars, monitorVars,
                           chatVars, tierVars, gifterVars, launcherVars, swarmVars, scriptVars, exampleVars,
                           lastRouted, tokenData, sweep, lastFired>>

RemoveAlertCall ==
    \E sender \in Users, alert_id \in 1..PremiumAlerts :
        /\ ApplyRemove(sender, RemoveAlert(sender, alert_id))
        /\ lastCreate' = NoCreate
        /\ UNCHANGED <<now, rateVars, quotaVars, cacheVars, monitorVars,
                       chatVars, tierVars, gifterVars, launcherVars, swarmVars, scriptVars, exampleVars,
                       lastRouted, tokenData, sweep, lastFired>>

\* get_token_data: nothing, or the token record of the API, which carries
\* its price under currentPrice or under price
NoData == [found |-> FALSE, currentPrice |-> NoPrice, price |-> NoPrice]

TokenRecords ==
    {NoData,
     [found |-> TRUE, currentPrice |-> 3, price |-> NoPrice],
     [found |-> TRUE, currentPrice |-> 7, price |-> NoPrice],
     [found |-> TRUE, currentPrice |-> NoPrice, price |-> 7],
     [found |-> TRUE, currentPrice |-> NoPrice, price |-> NoPrice]}

\* float(token_data.get("currentPrice", 0) or 0)
CurrentPrice(token_data) ==
    IF token_data.currentPrice = NoPrice THEN 0 ELSE token_data.currentPrice

\* the comparison of check_alerts
Triggers(alert, current_price) ==
    \/ alert.condition = "above" /\ current_price >= alert.threshold
    \/ alert.condition = "below" /\ current_price <= alert.threshold

IdleSweep == [pc |-> "idle", owners |-> <<>>, owner |-> "none",
              list |-> <<>>, todo |-> <<>>]

NoFired == [owner |-> "none", id |-> 0, condition |-> "none", threshold |-> 0,
            data |-> NoData]

\* [a for a in alerts if a["active"] and not a["triggered"]], as positions
Untriggered(list) ==
    LET Keep(i) == list[i].active /\ ~list[i].triggered
        F[i \in 0..Len(list)] ==
            IF i = 0 THEN <<>>
            ELSE IF Keep(i) THEN Append(F[i - 1], i) ELSE F[i - 1]
    IN  F[Len(list)]

\* check_alerts from one point of its loops to the next notification send, or
\* to its end: store is the alert storage, owners the owners still to visit,
\* list the alerts read for the owner, todo the positions still to check
RECURSIVE RunSweep(_, _, _, _, _)
RunSweep(store, owners, owner, list, todo) ==
    IF todo # <<>>
    THEN LET i     == Head(todo)
             alert == list[i]
         IN  IF ~tokenData.found
             THEN RunSweep(store, owners, owner, list, Tail(todo))
             ELSE IF Triggers(alert, CurrentPrice(tokenData))
             THEN LET marked == [list EXCEPT ![i].triggered = TRUE]
                  IN  [store |-> Put(store, owner, marked),
                       sweep |-> [pc |-> "sending", owners |-> owners,
                                  owner |-> owner, list |-> marked,
                                  todo |-> Tail(todo)],
                       fired |-> [owner |-> owner, id |-> alert.id,
                                  condition |-> alert.condition,
                                  threshold |-> alert.threshold,
                                  data |-> tokenData]]
             ELSE RunSweep(store, owners, owner, list, Tail(todo))
    ELSE IF owners = <<>>
    THEN [store |-> store, sweep |-> IdleSweep, fired |-> NoFired]
    ELSE LET list_ == ListOf(store, Head(owners))
         IN  RunSweep(store, Tail(owners), Head(owners), list_,
                      Untriggered(list_))

SweepTo(result) ==
    /\ alerts' = result.store
    /\ sweep' = result.sweep
    /\ lastFired' = result.fired
    /\ lastCreate' = NoCreate
    /\ lastRouted' = NoRouted
    /\ UNCHANGED <<now, rateVars, quotaVars, cacheVars, monitorVars, chatVars,
                   tierVars, gifterVars, launcherVars, swarmVars, scriptVars, exampleVars, alert_owners,
                   alerts_created, made, tokenData>>

\* check_alerts starts (it does not overlap itself)
CheckAlerts ==
    /\ sweep.pc = "idle"
    /\ alert_owners # <<>>
    /\ SweepTo(RunSweep(alerts, alert_owners, "none", <<>>, <<>>))

\* the notification send returns or raises, check_alerts goes on
ResumeSweep ==
    /\ sweep.pc = "sending"
    /\ SweepTo(RunSweep(alerts, sweep.owners, sweep.owner, sweep.list,
                        sweep.todo))

\* the API reports other data for the token
TokenFeed == \E token_data \in TokenRecords :
    /\ token_data # tokenData
    /\ tokenData' = token_data
    /\ lastCreate' = NoCreate
    /\ lastRouted' = NoRouted
    /\ lastFired' = NoFired
    /\ UNCHANGED <<now, rateVars, quotaVars, cacheVars, monitorVars, chatVars,
                   tierVars, gifterVars, launcherVars, swarmVars, scriptVars, exampleVars, alerts, alert_owners,
                   alerts_created, made, sweep>>

\* check_token_holdings for the senders of the watch messages: u1 holds the
\* premium amount of tokens, u2 does not
HoldingsTier(sender) == IF sender = "u1" THEN "premium" ELSE "free"

\* the watch messages, handled while check_alerts is idle or suspended
TradingWatch ==
    \E sender \in Users, text \in {WatchAbove, WatchBelow} :
        /\ TradingHandleChat(sender, text, HoldingsTier(sender))
        /\ lastFired' = NoFired
        /\ UNCHANGED <<now, rateVars, quotaVars, cacheVars, monitorVars,
                       chatVars, tierVars, gifterVars, launcherVars, swarmVars, scriptVars, exampleVars, tokenData,
                       sweep>>


----------------------------------------------------------------------------
(* Launcher agent: sessions, intent detection and the tokenization flow.     *)

\* CHAINS[chain]["id"]
ChainIds == [bsc |-> 97, eth |-> 11155111]

DefaultChain == "bsc"

NoKey == <<>>

\* the session get_session gives when nothing is stored for the sender
DefaultSession ==
    [api_key |-> NoKey, agents |-> <<>>, chain |-> DefaultChain,
     selected |-> "none"]

\* the key of the stored session is s_<sender[:20]>; the senders of the model
\* differ within their first 20 characters
SessionKey(sender) == sender

\* get_session; the stored value is <<session>>, or <<>> for a stored None
GetSession(sender) ==
    IF ListOf(sessions, SessionKey(sender)) = <<>> THEN DefaultSession
    ELSE sessions[SessionKey(sender)][1]

\* save_session and clear_session; a failed storage write is swallowed
SaveSession(sender, session, ok) ==
    IF ok THEN Put(sessions, SessionKey(sender), <<session>>) ELSE sessions

ClearSession(sender, ok) ==
    IF ok THEN Put(sessions, SessionKey(sender), <<>>) ELSE sessions

\* the messages
UseEth == <<"u", "s", "e", " ", "E", "T", "H">>  \* 'use ETH'

UseBsc == <<"u", "s", "e", " ", "B", "S", "C">>  \* 'use BSC'

ApiKeyText == <<"e", "y", "J", "a", ".", "b", ".", "c">>  \* 'eyJa.b.c'

LauncherTexts ==
    {UseEth, UseBsc, <<"s", "w", "i", "t", "c", "h">>,  \* 'switch'
                     <<"l", "e", "t", "'", "s", " ", "g", "o">>, ApiKeyText,  \* 'let's go'
                     <<"1">>,  \* '1'
                     <<"2">>,  \* '2'
     <<"s", "h", "o", "w">>,  \* 'show'
     <<"h", "i">>,  \* 'hi'
     <<"c", "o", "s", "t", "s">>}  \* 'costs'

\* the agents of the account, as list_agents reports them
AgentA == [name |-> <<"A", "l", "p", "h", "a">>, address |-> "agentA"]  \* 'Alpha'

AgentB == [name |-> <<"B", "e", "t", "a">>, address |-> "agentB"]  \* 'Beta'

\* list_agents: no success, or the list of the account's agents
Listings ==
    {[success |-> FALSE, agents |-> <<>>],
     [success |-> TRUE, agents |-> <<>>],
     [success |-> TRUE, agents |-> <<AgentA>>],
     [success |-> TRUE, agents |-> <<AgentA, AgentB>>]}

LetterSet ==
    {UpperLetters[i] : i \in 1..Len(UpperLetters)}
    \cup {LowerLetters[i] : i \in 1..Len(LowerLetters)}

\* [A-Za-z0-9_-]
KeyChars == LetterSet \cup DigitSet \cup {"_", "-"}

\* \w
WordChars == LetterSet \cup DigitSet \cup {"_"}

\* the matches of eyJ[A-Za-z0-9_-]+\.[A-Za-z0-9_-]+\.[A-Za-z0-9_-]+ in text,
\* as <<start, end>>
KeyMatches(text) ==
    LET n == Len(text)
        Run(a, b) == a <= b /\ \A j \in a..b : text[j] \in KeyChars
    IN  {m \in (1..n) \X (1..n) :
            /\ m[1] + 2 <= n
            /\ SubSeq(text, m[1], m[1] + 2) = <<"e", "y", "J">>  \* 'eyJ'
            /\ \E p \in 1..n, q \in 1..n :
                  /\ Run(m[1] + 3, p - 1) /\ text[p] = "."
                  /\ Run(p + 1, q - 1) /\ text[q] = "."
                  /\ Run(q + 1, m[2])
                  /\ (m[2] = n \/ text[m[2] + 1] \notin KeyChars)}

\* extract_api_key: the leftmost match, NoKey when there is none
ExtractApiKey(text) ==
    IF KeyMatches(text) = {} THEN NoKey
    ELSE LET m == CHOOSE a \in KeyMatches(text) :
                      \A b \in KeyMatches(text) : a[1] <= b[1]
         IN  SubSeq(text, m[1], m[2])

\* \b before position i and after position j of text
Boundary(text, i, j) ==
    /\ (i = 1 \/ text[i - 1] \notin WordChars)
    /\ (j = Len(text) \/ text[j + 1] \notin WordChars)

\* re.search(r"\b[1-9]\b", text)
HasSingleDigit(text) ==
    \E i \in 1..Len(text) :
        text[i] \in DigitSet \ {"0"} /\ Boundary(text, i, i)

\* extract_number: re.search(r"\b(\d+)\b", text), 0 for None (0 and None are
\* used alike by the caller)
ExtractNumber(text) ==
    LET runs == {m \in (1..Len(text)) \X (1..Len(text)) :
                    /\ m[1] <= m[2]
                    /\ \A j \in m[1]..m[2] : text[j] \in DigitSet
                    /\ Boundary(text, m[1], m[2])}
    IN  IF runs = {} THEN 0
        ELSE LET m == CHOOSE a \in runs : \A b \in runs : a[1] <= b[1]
             IN  ToInt(SubSeq(text, m[1], m[2]))

\* detect_intent of the launcher: the first test that matches decides
LauncherDetectIntent(original_text) ==
    LET text == LowerText(Strip(original_text))
    IN  IF KeyMatches(original_text) # {} THEN "api_key_provided"
        ELSE IF AnyIn(text, {<<"b", "o", "n", "d", "i", "n", "g", " ", "c", "u", "r", "v", "e">>,  \* 'bonding curve'
                             <<"b", "o", "n", "d", "i", "n", "g">>,  \* 'bonding'
                             <<"c", "u", "r", "v", "e">>,  \* 'curve'
                             <<"p", "r", "i", "c", "e", " ", "w", "o", "r", "k">>})  \* 'price work'
        THEN "explain_bonding"
        ELSE IF AnyIn(text, {<<"c", "o", "s", "t">>,  \* 'cost'
                             <<"f", "e", "e">>,  \* 'fee'
                             <<"p", "r", "i", "c", "e">>,  \* 'price'
                             <<"h", "o", "w", " ", "m", "u", "c", "h">>,  \* 'how much'
                             <<"e", "x", "p", "e", "n", "s", "i", "v", "e">>})  \* 'expensive'
        THEN "explain_costs"
        ELSE IF AnyIn(text, {<<"h", "o", "w", " ", "d", "o", "e", "s">>,  \* 'how does'
                             <<"h", "o", "w", " ", "d", "o">>,  \* 'how do'
                             <<"h", "o", "w", " ", "i", "t">>,  \* 'how it'
                             <<"p", "r", "o", "c", "e", "s", "s">>,  \* 'process'
                             <<"w", "h", "a", "t", " ", "h", "a", "p", "p", "e", "n">>,  \* 'what happen'
                             <<"e", "x", "p", "l", "a", "i", "n">>})  \* 'explain'
        THEN "explain_how"
        ELSE IF AnyIn(text, {<<"c", "h", "a", "i", "n">>,  \* 'chain'
                             <<"b", "s", "c">>,  \* 'bsc'
                             <<"e", "t", "h">>,  \* 'eth'
                             <<"e", "t", "h", "e", "r", "e", "u", "m">>,  \* 'ethereum'
                             <<"b", "i", "n", "a", "n", "c", "e">>,  \* 'binance'
                             <<"n", "e", "t", "w", "o", "r", "k">>})  \* 'network'
        THEN "explain_chains"
        ELSE IF AnyIn(text, {<<"h", "e", "l", "p">>,  \* 'help'
                             <<"w", "h", "a", "t", " ", "c", "a", "n">>,  \* 'what can'
                             <<"c", "o", "m", "m", "a", "n", "d">>}) \/ text =  \* 'command'
                             <<"?">>  \* '?'
        THEN "help"
        ELSE IF \/ AnyIn(text, {<<"t", "o", "k", "e", "n", "i", "z", "e">>,  \* 'tokenize'
                                <<"c", "r", "e", "a", "t", "e">>,  \* 'create'
                                <<"l", "a", "u", "n", "c", "h">>,  \* 'launch'
                                <<"s", "t", "a", "r", "t">>,  \* 'start'
                                <<"m", "a", "k", "e", " ", "t", "o", "k", "e", "n">>,  \* 'make token'
                                <<"l", "e", "t", "'", "s", " ", "g", "o">>,  \* 'let's go'
                                <<"l", "e", "t", "s", " ", "g", "o">>,  \* 'lets go'
                                <<"l", "e", "t", " ", "g", "o">>,  \* 'let go'
                                <<"l", "e", "g", "g", "o">>,  \* 'leggo'
                                <<"y", "e", "s">>,  \* 'yes'
                                <<"y", "e", "p">>,  \* 'yep'
                                <<"y", "e", "a", "h">>,  \* 'yeah'
                                <<"s", "u", "r", "e">>,  \* 'sure'
                                <<"o", "k">>,  \* 'ok'
                                <<"o", "k", "a", "y">>,  \* 'okay'
                                <<"r", "e", "a", "d", "y">>,  \* 'ready'
                                <<"b", "e", "g", "i", "n">>,  \* 'begin'
                                <<"d", "o", " ", "i", "t">>})  \* 'do it'
                \/ text \in {<<"g", "o">>, <<"y">>}  \* 'go' 'y'
        THEN "start_tokenize"
        ELSE IF AnyIn(text, {<<"l", "i", "s", "t">>,  \* 'list'
                             <<"s", "h", "o", "w">>,  \* 'show'
                             <<"m", "y", " ", "a", "g", "e", "n", "t">>,  \* 'my agent'
                             <<"m", "y", " ", "t", "o", "k", "e", "n">>})  \* 'my token'
        THEN "list_agents"
        ELSE IF \/ HasSingleDigit(text)
                \/ AnyIn(text, {<<"f", "i", "r", "s", "t">>,  \* 'first'
                                <<"s", "e", "c", "o", "n", "d">>,  \* 'second'
                                <<"t", "h", "i", "r", "d">>})  \* 'third'
        THEN "select_agent"
        ELSE IF AnyIn(text, {<<"s", "w", "i", "t", "c", "h">>,  \* 'switch'
                             <<"c", "h", "a", "n", "g", "e">>,  \* 'change'
                             <<"u", "s", "e", " ", "b", "s", "c">>,  \* 'use bsc'
                             <<"u", "s", "e", " ", "e", "t", "h">>})  \* 'use eth'
        THEN "change_chain"
        ELSE IF Len(text) < 20 /\ AnyIn(text, {<<"h", "i">>,  \* 'hi'
                                               <<"h", "e", "l", "l", "o">>,  \* 'hello'
                                               <<"h", "e", "y">>,  \* 'hey'
                                    <<"s", "u", "p">>,  \* 'sup'
                                    <<"y", "o">>,  \* 'yo'
                                    <<"h", "i", "y", "a">>,  \* 'hiya'
                                    <<"h", "o", "w", "d", "y">>})  \* 'howdy'
        THEN "greeting"
        ELSE "unknown"

NoLaunch == [sender |-> "none", text |-> <<>>, intent |-> "none",
             outcome |-> "none", chain_id |-> 0]

Launched(sender, text, intent, outcome, chain_id) ==
    [sender |-> sender, text |-> text, intent |-> intent, outcome |-> outcome,
     chain_id |-> chain_id]

\* the agent the select branch picks: by number, else by name; 0 for none
SelectedAgent(agents, text) ==
    LET num    == ExtractNumber(text)
        byName == {i \in 1..Len(agents) :
                      Contains(LowerText(agents[i].name), LowerText(text))}
    IN  IF num # 0 /\ 1 <= num /\ num <= Len(agents) THEN num
        ELSE IF byName = {} THEN 0
        ELSE CHOOSE i \in byName : \A j \in byName : i <= j

\* handle_chat of the launcher, after the acknowledgement
LauncherDispatch(sender, text) ==
    LET session == GetSession(sender)
        intent  == LauncherDetectIntent(text)
        Done(outcome, chain_id) ==
            lastLaunch' = Launched(sender, text, intent, outcome, chain_id)
        Same == UNCHANGED sessions
    IN  CASE intent \in {"explain_bonding", "explain_costs", "explain_how",
                         "explain_chains", "help", "greeting", "unknown"} ->
                Same /\ Done(intent, 0)
          [] intent = "change_chain" ->
                LET lower == LowerText(text)
                IN  IF Contains(lower, <<"b", "s", "c">>) \/ Contains(lower,  \* 'bsc'
                                       <<"b", "i", "n", "a", "n", "c", "e">>)  \* 'binance'
                    THEN \E ok \in BOOLEAN :
                            /\ sessions' = SaveSession(sender,
                                   [session EXCEPT !.chain = "bsc"], ok)
                            /\ Done("switched", 0)
                    ELSE IF Contains(lower, <<"e", "t", "h">>) \/ Contains(lower,  \* 'eth'
                                            <<"e", "t", "h", "e", "r", "e", "u", "m">>)  \* 'ethereum'
                    THEN \E ok \in BOOLEAN :
                            /\ sessions' = SaveSession(sender,
                                   [session EXCEPT !.chain = "eth"], ok)
                            /\ Done("switched", 0)
                    ELSE Same /\ Done("which chain", 0)
          [] intent = "start_tokenize" ->
                IF session.api_key # NoKey
                THEN \E result \in Listings :
                        IF result.success /\ result.agents # <<>>
                        THEN \E ok \in BOOLEAN :
                                /\ sessions' = SaveSession(sender,
                                       [session EXCEPT !.agents = result.agents], ok)
                                /\ Done("agents listed", 0)
                        ELSE Same /\ Done("key wanted", 0)
                ELSE Same /\ Done("key wanted", 0)
          [] intent = "api_key_provided" ->
                LET api_key == ExtractApiKey(text)
                IN  IF api_key = NoKey THEN Same /\ Done("no key found", 0)
                    ELSE \E result \in Listings :
                        IF ~result.success THEN Same /\ Done("key refused", 0)
                        ELSE IF result.agents = <<>>
                        THEN Same /\ Done("no agents", 0)
                        ELSE \E ok \in BOOLEAN :
                                /\ sessions' = SaveSession(sender,
                                       [session EXCEPT !.api_key = api_key,
                                                       !.agents = result.agents], ok)
                                /\ Done("agents listed", 0)
          [] intent \in {"select_agent", "list_agents"} ->
                IF session.agents = <<>> THEN Same /\ Done("no agent list", 0)
                ELSE IF SelectedAgent(session.agents, text) = 0
                THEN Same /\ Done("which agent", 0)
                ELSE LET chain_id == ChainIds[session.chain]
                     IN  \E success \in BOOLEAN :
                            IF ~success THEN Same /\ Done("tokenize failed", chain_id)
                            ELSE \E raises \in BOOLEAN :
                                IF raises
                                THEN Same /\ Done("reply raised", chain_id)
                                ELSE \E ok \in BOOLEAN :
                                        /\ sessions' = ClearSession(sender, ok)
                                        /\ Done("token created", chain_id)

\* handle_chat: the acknowledgement is sent first and is not guarded
LauncherChat == \E sender \in Users, text \in LauncherTexts :
    /\ \/ /\ lastLaunch' = Launched(sender, text, "none", "ack raised", 0)
          /\ UNCHANGED sessions
       \/ LauncherDispatch(sender, text)
    /\ UNCHANGED <<now, rateVars, quotaVars, cacheVars, monitorVars, chatVars,
                   tierVars, gifterVars, tradingVars, swarmVars, scriptVars, exampleVars>>

----------------------------------------------------------------------------
(* Analyst: score_token.  Scores are kept in tenths (one decimal), the       *)
(* weighted sum in thousandths; the weights are in percent.  A token is      *)
(* given by the metrics score_token reads from it.                           *)

\* round(x, 1) of n/d, in tenths: to the nearest, a half to the even one
RoundDiv(n, d) ==
    LET q == n \div d
        r == n % d
    IN  IF 2 * r < d THEN q
        ELSE IF 2 * r > d THEN q + 1
        ELSE IF q % 2 = 0 THEN q ELSE q + 1

\* normalize(value, min_val, max_val), rounded to one decimal, in tenths
Normalize(value, min_val, max_val) ==
    IF max_val <= min_val THEN 500
    ELSE LET x == RoundDiv((value - min_val) * 1000, max_val - min_val)
         IN  IF value <= min_val THEN 0 ELSE IF x > 1000 THEN 1000 ELSE x

\* createdAt: the day of the date, or one of these when the field is
\* missing or empty, or holds what fromisoformat rejects
NoCreated == -1
Unparsable == -2

\* an age that grows with the calls made, not only with the calendar
AgeDaysDrifting(created, day) ==
    IF created \in {NoCreated, Unparsable} THEN 0
    ELSE day - created + (IF firstScore.grade = "none" THEN 0 ELSE 1)

\* (datetime.now() - created_dt).days; 0 without a date that parses
AgeDays(created, day) ==
    IF created \in {NoCreated, Unparsable} THEN 0 ELSE day - created

\* WEIGHTS, in percent
Weights == [holders |-> 30, volume |-> 25, liquidity |-> 20,
            price_stability |-> 15, age |-> 10]

Grade(weighted) ==
    IF weighted >= 80000 THEN "A"
    ELSE IF weighted >= 60000 THEN "B"
    ELSE IF weighted >= 40000 THEN "C"
    ELSE IF weighted >= 20000 THEN "D"
    ELSE "F"

\* score_token(token), called on the given day
ScoreToken(token, day) ==
    LET scores == [holders |-> Normalize(token.holders, 0, 200),
                   volume |-> Normalize(token.volume, 0, 10000),
                   liquidity |-> Normalize(token.liquidity, 0, 30000),
                   price_stability |-> IF token.price > 0 THEN 500 ELSE 0,
                   age |-> Normalize(AgeDays(token.created, day), 0, 30)]
        weighted == scores.holders * Weights.holders
                    + scores.volume * Weights.volume
                    + scores.liquidity * Weights.liquidity
                    + scores.price_stability * Weights.price_stability
                    + scores.age * Weights.age
    IN  [scores |-> scores, total |-> RoundDiv(weighted, 100),
         grade |-> Grade(weighted)]

\* the tokens scored
ScoredTokens ==
    [holders : {150, 250}, volume : {1234, 3800}, liquidity : {0, 45000},
     price : {0, 1}, created : {NoCreated, Unparsable, 0}]

NoToken == [holders |-> 0, volume |-> 0, liquidity |-> 0, price |-> 0,
            created |-> NoCreated]

NoScore == [token |-> NoToken, day |-> -1, total |-> 0, grade |-> "none",
            again |-> FALSE]

\* a call of score_token: its result is kept as the latest, and as the
\* first when it is the first
Score == \E token \in ScoredTokens :
    LET result == ScoreToken(token, clockDay)
        Call(again) == [token |-> token, day |-> clockDay, total |-> result.total,
                        grade |-> result.grade, again |-> again]
    IN  /\ lastScore' = Call(firstScore # NoScore)
        /\ firstScore' = IF firstScore = NoScore THEN Call(FALSE) ELSE firstScore
        /\ UNCHANGED <<clockDay, net, queries, promised, answers, route_count,
                       stats, now, rateVars, quotaVars, cacheVars, monitorVars,
                       chatVars, tierVars, gifterVars, tradingVars, launcherVars, scriptVars, exampleVars>>

\* midnight passes
NextDay ==
    /\ clockDay < MaxScoreDay
    /\ clockDay' = clockDay + 1
    /\ UNCHANGED <<firstScore, lastScore, net, queries, promised, answers,
                   route_count, stats, now, rateVars, quotaVars, cacheVars,
                   monitorVars, chatVars, tierVars, gifterVars, tradingVars,
                   launcherVars, scriptVars, exampleVars>>

----------------------------------------------------------------------------
(* Genesis swarm: the coordinator and the brain, and the chat messages in    *)
(* flight between them.  A message to a user is delivered when it is sent.   *)
(* Acknowledgements are left out of the network: handle_ack only logs them.  *)
(* Every query of a user carries a number; a message forwarded or sent in    *)
(* answer carries the number of the message handled (history).  Of a reply   *)
(* of several lines the first line is kept.                                  *)

Coordinator == "coordinator"

Brain == "brain"

Roles == {"oracle", "brain", "analyst", "sentinel", "launcher", "scout"}

\* AGENT_DIRECTORY[role]["address"]: BRAIN_ADDRESS is set, the others are not
AgentDirectory == [role \in Roles |-> IF role = "brain" THEN Brain ELSE ""]

\* ROUTING_RULES
RoutingRules == <<
    [role |-> "oracle", keywords |->
        {<<"p", "r", "i", "c", "e">>,  \* 'price'
         <<"m", "a", "r", "k", "e", "t">>,  \* 'market'
         <<"o", "h", "l", "c">>,  \* 'ohlc'
         <<"v", "o", "l", "u", "m", "e">>,  \* 'volume'
         <<"t", "o", "p", " ", "t", "o", "k", "e", "n", "s">>,  \* 'top tokens'
         <<"h", "i", "s", "t", "o", "r", "y">>}],  \* 'history'
    [role |-> "brain", keywords |->
        {<<"r", "e", "a", "s", "o", "n">>,  \* 'reason'
         <<"t", "h", "i", "n", "k">>,  \* 'think'
         <<"s", "u", "m", "m", "a", "r", "i", "z", "e">>,  \* 'summarize'
         <<"c", "l", "a", "s", "s", "i", "f", "y">>,  \* 'classify'
         <<"e", "x", "p", "l", "a", "i", "n">>,  \* 'explain'
         <<"w", "h", "y">>}],  \* 'why'
    [role |-> "analyst", keywords |->
        {<<"s", "c", "o", "r", "e">>,  \* 'score'
         <<"e", "v", "a", "l", "u", "a", "t", "e">>,  \* 'evaluate'
         <<"r", "a", "n", "k">>,  \* 'rank'
         <<"g", "r", "a", "d", "e">>,  \* 'grade'
         <<"q", "u", "a", "l", "i", "t", "y">>,  \* 'quality'
         <<"r", "a", "t", "i", "n", "g">>}],  \* 'rating'
    [role |-> "sentinel", keywords |->
        {<<"m", "o", "n", "i", "t", "o", "r">>,  \* 'monitor'
         <<"a", "l", "e", "r", "t">>,  \* 'alert'
         <<"a", "n", "o", "m", "a", "l", "y">>,  \* 'anomaly'
         <<"w", "a", "t", "c", "h">>,  \* 'watch'
         <<"d", "e", "t", "e", "c", "t">>,  \* 'detect'
         <<"a", "l", "a", "r", "m">>}],  \* 'alarm'
    [role |-> "launcher", keywords |->
        {<<"g", "a", "p">>,  \* 'gap'
         <<"s", "c", "a", "f", "f", "o", "l", "d">>,  \* 'scaffold'
         <<"d", "e", "p", "l", "o", "y">>,  \* 'deploy'
         <<"b", "u", "i", "l", "d">>,  \* 'build'
         <<"c", "r", "e", "a", "t", "e", " ", "a", "g", "e", "n", "t">>,  \* 'create agent'
         <<"n", "e", "w", " ", "a", "g", "e", "n", "t">>}],  \* 'new agent'
    [role |-> "scout", keywords |->
        {<<"d", "i", "s", "c", "o", "v", "e", "r">>,  \* 'discover'
         <<"f", "i", "n", "d", " ", "a", "g", "e", "n", "t">>,  \* 'find agent'
         <<"t", "o", "k", "e", "n", "i", "z", "e">>,  \* 'tokenize'
         <<"s", "c", "o", "u", "t">>,  \* 'scout'
         <<"p", "r", "o", "m", "i", "s", "i", "n", "g">>}] >>  \* 'promising'

\* the loop of classify_and_route over the rules
RECURSIVE BestMatch(_, _, _)
BestMatch(rules, lower, best) ==
    IF rules = <<>> THEN best
    ELSE LET matches == Cardinality({kw \in rules[1].keywords : Contains(lower, kw)})
         IN  BestMatch(Tail(rules), lower,
                       IF matches > best.matches
                       THEN [role |-> rules[1].role, matches |-> matches]
                       ELSE best)

\* classify_and_route: the role (the confidence and the reason only go into
\* the reply text)
ClassifyAndRoute(text) ==
    LET best == BestMatch(RoutingRules, LowerText(text),
                          [role |-> "none", matches |-> 0])
    IN  IF best.matches > 0 THEN best.role ELSE "brain"

\* str.startswith
HasPrefix(t, w) == Len(t) >= Len(w) /\ SubSeq(t, 1, Len(w)) = w

\* what users send
WhyQuery == <<"w", "h", "y", " ", "i", "s", " ", "f", "e", "t", " ", "u", "p">>  \* 'why is fet up'
RouteQuery == <<"r", "o", "u", "t", "e", " ", "e", "x", "p", "l", "a", "i", "n", " ", "f", "e", "t">>  \* 'route explain fet'
PriceQuery == <<"p", "r", "i", "c", "e">>  \* 'price'
HelpQuery == <<"h", "e", "l", "p">>  \* 'help'

UserQueries == {WhyQuery, RouteQuery, PriceQuery, HelpQuery}

\* the replies of the coordinator
CoordinatorHelp == <<"C", "o", "o", "r", "d", "i", "n", "a", "t", "o", "r", " ", "A", "g", "e", "n", "t", " ", "(", "$", "R", "O", "U", "T", "E", ")">>  \* 'Coordinator Agent ($ROUTE)'
DirectoryText == <<"G", "e", "n", "e", "s", "i", "s", " ", "N", "e", "t", "w", "o", "r", "k", " ", "S", "w", "a", "r", "m", " ", "D", "i", "r", "e", "c", "t", "o", "r", "y", ":">>  \* 'Genesis Network Swarm Directory:'
CoordinatorStats == <<"C", "o", "o", "r", "d", "i", "n", "a", "t", "o", "r", " ", "S", "t", "a", "t", "s", ":">>  \* 'Coordinator Stats:'
RoutedText == <<"R", "o", "u", "t", "e", "d", " ", "t", "o", " ", "B", "r", "a", "i", "n", " ", "(", "$", "T", "H", "I", "N", "K", ")", " ", "(", "c", "o", "n", "f", "i", "d", "e", "n", "c", "e", ":", " ", "5", "0", "%", ")">>  \* 'Routed to Brain ($THINK) (confidence: 50%)'
RoutingFailed == <<"R", "o", "u", "t", "i", "n", "g", " ", "f", "a", "i", "l", "e", "d", ":">>  \* 'Routing failed:'
NotConfigured == <<"B", "e", "s", "t", " ", "m", "a", "t", "c", "h", ":">>  \* 'Best match:'

\* the replies of the brain; the analysis is what the model returned
BrainHelp == <<"B", "r", "a", "i", "n", " ", "A", "g", "e", "n", "t", " ", "(", "$", "T", "H", "I", "N", "K", ")">>  \* 'Brain Agent ($THINK)'
BrainStats == <<"B", "r", "a", "i", "n", " ", "U", "s", "a", "g", "e", " ", "S", "t", "a", "t", "s", ":">>  \* 'Brain Usage Stats:'
ClassificationText == <<"C", "l", "a", "s", "s", "i", "f", "i", "c", "a", "t", "i", "o", "n", ":", " ", "G", "E", "N", "E", "R", "A", "L">>  \* 'Classification: GENERAL'
SummaryText == <<"S", "u", "m", "m", "a", "r", "y", ":">>  \* 'Summary:'
AnalysisText == <<"A", "n", "a", "l", "y", "s", "i", "s", ":">> \o <<"\n">> \o  \* 'Analysis:'
                <<"o", "k">>  \* 'ok'
BrainDefault == <<"B", "r", "a", "i", "n", " ", "A", "g", "e", "n", "t", " ", "(", "$", "T", "H", "I", "N", "K", ")", ".", " ", "T", "y", "p", "e", " ", "'", "h", "e", "l", "p", "'", " ", "f", "o", "r", " ", "c", "o", "m", "m", "a", "n", "d", "s", ".">>  \* 'Brain Agent ($THINK). Type 'help' for commands.'

\* a chat message: its text, whether it carries EndSessionContent, and the
\* number of the user query it belongs to
Message(src, dst, text, end, qid) ==
    [src |-> src, dst |-> dst, text |-> text, end |-> end, qid |-> qid]

\* one run of a handler: the chat messages whose ctx.send went through, and
\* the counter it incremented
Ran(sent, counted) == [sent |-> sent, counted |-> counted]

\* the texts the agents are sent
ExplainQuery == <<"e", "x", "p", "l", "a", "i", "n", " ", "f", "e", "t">>  \* 'explain fet'

SwarmTexts ==
    UserQueries
    \cup {ExplainQuery, CoordinatorHelp, DirectoryText, CoordinatorStats,
          RoutedText, RoutingFailed, NotConfigured, BrainHelp, BrainStats,
          ClassificationText, SummaryText, AnalysisText, BrainDefault}

\* the coordinator's handle_chat up to its sends: the branch taken, and for a
\* routed text the query and the address of the agent it is routed to
CoordinatorBranch(received) ==
    LET text  == Strip(received)
        lower == LowerText(text)
        query == IF HasPrefix(lower, <<"r", "o", "u", "t", "e", " ">>)  \* 'route '
                 THEN Strip(SubSeq(text, 7, Len(text))) ELSE text
        Branch(name) == [name |-> name, query |-> <<>>, address |-> ""]
    IN  IF lower \in {<<"?">>, <<"?">>}  \* 'help' '?'
        THEN Branch("help")
        ELSE IF lower \in {<<"a", "g", "e", "n", "t", "s">>,  \* 'agents'
                           <<"d", "i", "r", "e", "c", "t", "o", "r", "y">>,  \* 'directory'
                           <<"s", "w", "a", "r", "m">>}  \* 'swarm'
        THEN Branch("agents")
        ELSE IF lower = <<"s", "t", "a", "t", "s">> THEN Branch("stats")  \* 'stats'
        ELSE [name |-> "route", query |-> query,
              address |-> AgentDirectory[ClassifyAndRoute(query)]]

CoordinatorBranches == [text \in SwarmTexts |-> CoordinatorBranch(text)]

\* the brain's handle_chat up to its reply: the branch taken
BrainBranch(received) ==
    LET text  == Strip(received)
        lower == LowerText(text)
    IN  IF lower \in {<<"?">>, <<"?">>} THEN "help"  \* 'help' '?'
        ELSE IF lower = <<"s", "t", "a", "t", "s">> THEN "stats"  \* 'stats'
        ELSE IF HasPrefix(lower, <<"c", "l", "a", "s", "s", "i", "f", "y", " ">>)  \* 'classify '
        THEN "classify"
        ELSE IF HasPrefix(lower, <<"s", "u", "m", "m", "a", "r", "i", "z", "e", " ">>)  \* 'summarize '
        THEN "summarize"
        ELSE IF HasPrefix(lower, <<"r", "e", "a", "s", "o", "n", " ">>)  \* 'reason '
        THEN "reason"
        ELSE IF Len(text) > 10 THEN "default reason"
        ELSE "default"

BrainBranches == [text \in SwarmTexts |-> BrainBranch(text)]

\* the coordinator's handle_chat for the message m: the ways it can run,
\* by which of its sends raise
CoordinatorRuns(m) ==
    LET branch == CoordinatorBranches[m.text]
        Answer(t) == Message(Coordinator, m.src, t, FALSE, m.qid)
        AnswerEnd(t) == Message(Coordinator, m.src, t, TRUE, m.qid)
        forward == Message(Coordinator, branch.address, branch.query, FALSE, m.qid)
    IN  \* the acknowledgement raises
        {Ran({}, "none")}
        \cup
        (IF branch.name = "help"
         THEN {Ran({Answer(CoordinatorHelp)}, "none"), Ran({}, "none")}
         ELSE IF branch.name = "agents"
         THEN {Ran({AnswerEnd(DirectoryText)}, "none"), Ran({}, "none")}
         ELSE IF branch.name = "stats"
         THEN {Ran({AnswerEnd(CoordinatorStats)}, "none"), Ran({}, "none")}
         ELSE IF branch.address # ""
         THEN {\* the query is forwarded and the sender told so
               Ran({forward, AnswerEnd(RoutedText)}, "route"),
               \* the notice raises: the except branch replies, or raises too
               Ran({forward, AnswerEnd(RoutingFailed)}, "route"),
               Ran({forward}, "route"),
               \* the forward raises
               Ran({AnswerEnd(RoutingFailed)}, "route"),
               Ran({}, "route")}
         ELSE {Ran({AnswerEnd(NotConfigured)}, "route"), Ran({}, "route")})

\* the brain's handle_chat for the message m
BrainRuns(m) ==
    LET branch == BrainBranches[m.text]
        Answer(t) == Message(Brain, m.src, t, FALSE, m.qid)
        AnswerEnd(t) == Message(Brain, m.src, t, TRUE, m.qid)
        Either(msg, counted) == {Ran({msg}, counted), Ran({}, counted)}
    IN  {Ran({}, "none")}
        \cup
        (CASE branch = "help" -> Either(Answer(BrainHelp), "none")
           [] branch = "stats" -> Either(AnswerEnd(BrainStats), "none")
           [] branch = "classify" -> Either(AnswerEnd(ClassificationText), "classify")
           [] branch = "summarize" -> Either(AnswerEnd(SummaryText), "summarize")
           [] branch \in {"reason", "default reason"}
                -> Either(AnswerEnd(AnalysisText), "reason")
           [] OTHER -> Either(AnswerEnd(BrainDefault), "none"))

\* the sends of a run: a message to an agent is in flight, a message to a
\* user is delivered; promised and answers record the deliveries of the
\* routing notice and of the brain's analysis
Deliver(m, run) ==
    LET toUsers == {x \in run.sent : x.dst \in Users}
    IN  /\ net' = (net \ {m}) \cup (run.sent \ toUsers)
        /\ promised' = promised \cup
                         {x.qid : x \in {y \in toUsers : y.text = RoutedText}}
        /\ answers' = answers \cup
                        {[qid |-> x.qid, to |-> x.dst] :
                            x \in {y \in toUsers : y.src = Brain
                                                   /\ y.text = AnalysisText}}

\* a user sends a query to the coordinator, or to the brain itself
UserAsks == \E user \in Users, agent \in {Coordinator, Brain}, text \in UserQueries :
    /\ Len(queries) < MaxQueries
    /\ queries' = Append(queries, user)
    /\ net' = net \cup {Message(user, agent, text, FALSE, Len(queries) + 1)}
    /\ UNCHANGED <<promised, answers, route_count, stats, clockDay, firstScore,
                   lastScore, now, rateVars, quotaVars, cacheVars, monitorVars,
                   chatVars, tierVars, gifterVars, tradingVars, launcherVars, scriptVars, exampleVars>>

CoordinatorChat == \E m \in net : \E run \in CoordinatorRuns(m) :
    /\ m.dst = Coordinator
    /\ route_count < MaxRoutes
    /\ Deliver(m, run)
    /\ route_count' = IF run.counted = "route" THEN route_count + 1 ELSE route_count
    /\ UNCHANGED <<queries, stats, clockDay, firstScore, lastScore, now, rateVars,
                   quotaVars, cacheVars, monitorVars, chatVars, tierVars,
                   gifterVars, tradingVars, launcherVars, scriptVars, exampleVars>>

BrainChat == \E m \in net : \E run \in BrainRuns(m) :
    /\ m.dst = Brain
    /\ \A k \in DOMAIN stats : stats[k] < MaxRoutes
    /\ Deliver(m, run)
    /\ stats' = IF run.counted = "none" THEN stats
                ELSE [stats EXCEPT ![run.counted] = @ + 1]
    /\ UNCHANGED <<queries, route_count, clockDay, firstScore, lastScore, now,
                   rateVars, quotaVars, cacheVars, monitorVars, chatVars, tierVars,
                   gifterVars, tradingVars, launcherVars, scriptVars, exampleVars>>

----------------------------------------------------------------------------
(* Price monitor: the remove command.  Addresses and the argument of the    *)
(* command are texts, compared character by character.                      *)

\* the characters of each token address
AddressText == [t \in Tokens |-> <<"0", "x", "a">>]

\* args.split()[0] of the remove commands sent; the empty one is a command
\* without an argument
RemoveTargets ==
    {<< >>, <<"0">>, <<"1">>, <<"2">>, <<"3">>, <<"0", "x", "a">>,
     <<"a", "b", "c">>}

\* int(target) raises ValueError unless the text is a decimal number
IsInt(target) ==
    /\ target # << >>
    /\ \A i \in 1..Len(target) : \E d \in 1..Len(Digits) : Digits[d] = target[i]

\* list.pop(i) with i counted from 1
Pop(list, i) == SubSeq(list, 1, i - 1) \o SubSeq(list, i + 1, Len(list))

\* the for loop of handle_remove: the first watch whose address starts with
\* the target, 0 when there is none
FirstWithPrefix(user_watches, target) ==
    LET found == {i \in 1..Len(user_watches) :
                    HasPrefix(AddressText[user_watches[i].address], target)}
    IN  IF found = {} THEN 0 ELSE CHOOSE i \in found : \A j \in found : i <= j

\* handle_remove: the index first, then the address
HandleRemove(user_id, target) ==
    IF target = << >>
    THEN /\ lastResponse' = Response("remove", "usage")
         /\ UNCHANGED <<watches, watchOrder>>
    ELSE
    LET user_watches == ListOf(watches, user_id)
        idx == ToInt(target) - 1
        i   == FirstWithPrefix(user_watches, target)
    IN  /\ watchOrder' = Touch(watchOrder, user_id)
        /\ IF IsInt(target) /\ 0 <= idx /\ idx < Len(user_watches)
           THEN /\ watches' = Put(watches, user_id, Pop(user_watches, idx + 1))
                /\ lastResponse' = Response("remove", "removed")
           ELSE IF i # 0
           THEN /\ watches' = Put(watches, user_id, Pop(user_watches, i))
                /\ lastResponse' = Response("remove", "removed")
           ELSE /\ watches' = Put(watches, user_id, user_watches)
                /\ lastResponse' = Response("remove", "not found")

Remove == \E u \in Users, target \in RemoveTargets :
    /\ HandleRemove(u, target)
    /\ lastRemove' = [user |-> u, target |-> target, before |-> watches]
    /\ lastDecisions' = {}
    /\ UNCHANGED <<now, feed, price_cache, rateVars, quotaVars, cacheVars, chatVars,
                   tierVars, gifterVars, tradingVars, launcherVars, swarmVars, scriptVars, exampleVars>>

----------------------------------------------------------------------------
(* Trading example (agent-trading-example.py): the chat trade command and   *)
(* the periodic discovery, over the holdings and the proposal times the     *)
(* agent keeps in memory.  The chat handler is modelled from the point      *)
(* where handle_chat has passed its gates and detected the trade intent.    *)

MAX_BUY_AMOUNT_FET == 500

MIN_HOLDERS_TO_BUY == 3

MIN_VOLUME_TO_BUY == 100

EVALUATION_INTERVAL == 3600

\* the trade links generated per hour
TRADE_RATE_LIMIT_PER_HOUR == 2

\* the hours the agent is followed for
MaxExampleHours == 1

\* TOTAL_BUY_TOKENS in evaluate, in millions of tokens
TotalBuyTokens == 800

\* the agent's own token; the environment variable is set after tokenization
MY_TOKEN_ADDRESS == "0xme"

\* the tokens of the platform, by address
ExampleTokens == {MY_TOKEN_ADDRESS, "0xaa", "0xbb"}

\* what the API reports about each token; description is its length,
\* remainingAmount is in millions of tokens
TokenDetails ==
    [t \in ExampleTokens |->
        CASE t = MY_TOKEN_ADDRESS ->
                [address |-> t, holderCount |-> 60, volume24h |-> 1500,
                 isListed |-> TRUE, remainingAmount |-> 0, description |-> 120,
                 logo |-> TRUE]
          [] t = "0xaa" ->
                [address |-> t, holderCount |-> 60, volume24h |-> 1500,
                 isListed |-> FALSE, remainingAmount |-> 400,
                 description |-> 30, logo |-> TRUE]
          [] OTHER ->
                [address |-> t, holderCount |-> 14, volume24h |-> 150,
                 isListed |-> FALSE, remainingAmount |-> 0, description |-> 10,
                 logo |-> FALSE]]

\* TokenEvaluator.evaluate: the score; int() of a quotient that is not
\* negative is the integer division
EvaluateScore(d) ==
    LET holders == IF d.holderCount >= 50 THEN 25
                   ELSE IF d.holderCount >= MIN_HOLDERS_TO_BUY
                   THEN (d.holderCount * 25) \div 50
                   ELSE 0
        volume  == IF d.volume24h >= 1000 THEN 25
                   ELSE IF d.volume24h >= MIN_VOLUME_TO_BUY
                   THEN (d.volume24h * 25) \div 1000
                   ELSE 0
        curve   == IF d.isListed THEN 25
                   ELSE IF d.remainingAmount > 0
                   THEN ((TotalBuyTokens - d.remainingAmount) * 25)
                            \div TotalBuyTokens
                   ELSE 0
        desc    == IF d.description > 100 THEN 15
                   ELSE IF d.description > 20 THEN 8
                   ELSE 0
        logo    == IF d.logo THEN 10 ELSE 0
    IN  Min(holders + volume + curve + desc + logo, 100)

\* TokenEvaluator.evaluate: the recommendation
Recommendation(d) ==
    LET score == EvaluateScore(d)
    IN  IF score >= 70 THEN "strong_buy"
        ELSE IF score >= 50 THEN "buy"
        ELSE IF score >= 30 THEN "watch"
        ELSE "skip"

\* TradeManager.can_propose: the proposals of the last hour are kept
RecentProposals(times) == SelectSeq(times, LAMBDA t : now - t < 3600)

CanPropose(times) == Len(RecentProposals(times)) < TRADE_RATE_LIMIT_PER_HOUR

\* TradeManager.generate_buy_link: the amount of the link
GenerateBuyLink(token_address, amount_fet) ==
    [token |-> token_address, amount |-> Min(amount_fet, MAX_BUY_AMOUNT_FET)]

\* CrossHoldings.record_buy
RecordBuy(held, token_address, amount_fet) ==
    Put(held, token_address, ValueOf(held, token_address, 0) + amount_fet)

\* the words of a message: a word that starts with 0x and has 42 characters
\* is given by the address it spells, any other word by its characters
AddressWord(token) == [address |-> token, text |-> << >>]

Word(text) == [address |-> "none", text |-> text]

TradeWord == Word(<<"t", "r", "a", "d", "e">>)

AmountWords ==
    {Word(<<"5", "0", "0">>), Word(<<"5", "0", "1">>), Word(<<"-", "5">>)}

\* the messages with the trade intent: 'trade', 'trade <addr>',
\* 'trade <addr> <amount>'
TradeTexts ==
    {<<TradeWord>>}
    \cup {<<TradeWord, AddressWord(t)>> : t \in ExampleTokens}
    \cup {<<TradeWord, AddressWord(t), a>> : t \in ExampleTokens, a \in AmountWords}

\* the loop over text.split(): the last address and the last number win
RECURSIVE ParseTrade(_, _, _)
ParseTrade(parts, token_addr, amount) ==
    IF parts = << >> THEN [token_addr |-> token_addr, amount |-> amount]
    ELSE IF parts[1].address # "none"
    THEN ParseTrade(Tail(parts), parts[1].address, amount)
    ELSE IF IsInt(parts[1].text)
    THEN ParseTrade(Tail(parts), token_addr, ToInt(parts[1].text))
    ELSE ParseTrade(Tail(parts), token_addr, amount)

\* a buy link a handler generated, with the amount it added to the holdings
Proposal(path, link, held) ==
    [path |-> path, token |-> link.token, amount |-> link.amount, held |-> held]

\* handle_chat, the trade branch; found tells whether the API knows the token
HandleTrade(parts, found) ==
    LET recent == RecentProposals(proposals)
        parsed == ParseTrade(parts, "none", 100)
        link   == GenerateBuyLink(parsed.token_addr, parsed.amount)
    IN  IF ~(Len(recent) < TRADE_RATE_LIMIT_PER_HOUR)
        THEN /\ proposals' = recent
             /\ lastProposals' = {}
             /\ UNCHANGED my_holdings
        ELSE IF parsed.token_addr = "none" \/ ~found
        THEN /\ proposals' = recent
             /\ lastProposals' = {}
             /\ UNCHANGED my_holdings
        ELSE /\ proposals' = Append(recent, now)
             /\ my_holdings' = RecordBuy(my_holdings, parsed.token_addr, parsed.amount)
             /\ lastProposals' = {Proposal("chat", link, parsed.amount)}

TradeChat == \E parts \in TradeTexts, found \in BOOLEAN :
    /\ HandleTrade(parts, found)
    /\ UNCHANGED <<now, scanned, rateVars, quotaVars, cacheVars, monitorVars,
                   chatVars, tierVars, gifterVars, tradingVars, launcherVars,
                   swarmVars, scriptVars>>

\* the for loop of periodic_discovery over the listed tokens; known are the
\* tokens get_token_details answers for
RECURSIVE Discover(_, _, _, _)
Discover(tokens, known, times, links) ==
    IF tokens = << >> THEN [proposals |-> times, links |-> links]
    ELSE LET addr == tokens[1]
             rest == Tail(tokens)
         IN  IF addr = MY_TOKEN_ADDRESS THEN Discover(rest, known, times, links)
             ELSE IF addr \in DOMAIN my_holdings
             THEN Discover(rest, known, times, links)
             ELSE IF addr \notin known THEN Discover(rest, known, times, links)
             ELSE IF Recommendation(TokenDetails[addr]) # "strong_buy"
             THEN Discover(rest, known, times, links)
             ELSE IF ~CanPropose(times)
             THEN Discover(rest, known, RecentProposals(times), links)
             ELSE Discover(rest, known, Append(RecentProposals(times), now),
                           links \cup {Proposal("periodic",
                                               GenerateBuyLink(addr, 100), 0)})

\* the answers of list_tokens: nothing, or the tokens in some order
TokenLists ==
    {<< >>, <<"0xme", "0xaa", "0xbb">>, <<"0xaa", "0xme">>, <<"0xbb", "0xaa">>}

\* periodic_discovery, once every EVALUATION_INTERVAL
PeriodicDiscovery == \E tokens \in TokenLists, known \in SUBSET ExampleTokens :
    LET run == Discover(tokens, known, proposals, {})
    IN  /\ ~scanned
        /\ scanned' = TRUE
        /\ proposals' = run.proposals
        /\ lastProposals' = run.links
        /\ UNCHANGED <<now, my_holdings, rateVars, quotaVars, cacheVars,
                       monitorVars, chatVars, tierVars, gifterVars, tradingVars,
                       launcherVars, swarmVars, scriptVars>>

\* an hour passes
ExampleHour ==
    /\ now + EVALUATION_INTERVAL <= MaxExampleHours * EVALUATION_INTERVAL
    /\ now' = now + EVALUATION_INTERVAL
    /\ scanned' = FALSE
    /\ lastProposals' = {}
    /\ UNCHANGED <<my_holdings, proposals, rateVars, quotaVars, cacheVars,
                   monitorVars, chatVars, tierVars, gifterVars, tradingVars,
                   launcherVars, swarmVars, scriptVars>>

----------------------------------------------------------------------------
(* Command-line scripts: launch-headless.py and deploy-to-agentverse.py.     *)
(* A run goes from its options and environment through its calls to the     *)
(* exit of the process; failure records the unrecoverable error the run met. *)
(* An exception nobody catches ends the process with status 1.               *)

Running == -1

\* range(12) in deploy_agent
PollAttempts == 12

NoOptions ==
    [api_key |-> FALSE, list_agents |-> FALSE, name |-> FALSE,
     deploy_onchain |-> FALSE, pk |-> FALSE, deployer |-> FALSE,
     agent_file |-> "none", default_file |-> FALSE, treasury_key |-> FALSE]

NotRun == [script |-> "none", options |-> NoOptions, pc |-> "none",
           failure |-> "none", polls |-> 0, exit |-> Running]

\* the outcomes of a requests call: a 2xx response, an error status, an
\* exception (connection refused, timeout)
HttpOutcomes == {"ok", "error", "raises"}

\* sys.exit(1) after an error, or an uncaught exception
Fail(failure) == proc' = [proc EXCEPT !.pc = "exited", !.failure = failure, !.exit = 1]

\* main returns
Finish == proc' = [proc EXCEPT !.pc = "exited", !.exit = 0]

\* main returns after an error that was only printed
FinishAfter(failure) ==
    proc' = [proc EXCEPT !.pc = "exited", !.failure = failure, !.exit = 0]

Goto(pc) == proc' = [proc EXCEPT !.pc = pc]

OtherUnchanged ==
    UNCHANGED <<now, rateVars, quotaVars, cacheVars, monitorVars, chatVars,
                tierVars, gifterVars, tradingVars, launcherVars, swarmVars,
                exampleVars>>

\* launch-headless.py main, up to its first call
LaunchMain ==
    \E api_key, list_agents, name, deploy_onchain, pk, deployer \in BOOLEAN :
        LET options == [NoOptions EXCEPT !.api_key = api_key,
                                         !.list_agents = list_agents,
                                         !.name = name,
                                         !.deploy_onchain = deploy_onchain,
                                         !.pk = pk, !.deployer = deployer]
            started == [NotRun EXCEPT !.script = "launch-headless",
                                      !.options = options]
        IN  /\ proc = NotRun
            /\ proc' = IF ~api_key
                       THEN [started EXCEPT !.pc = "exited", !.exit = 1,
                                            !.failure = "no api key"]
                       ELSE IF list_agents
                       THEN [started EXCEPT !.pc = "list_agents"]
                       ELSE IF ~name
                       THEN [started EXCEPT !.pc = "exited", !.exit = 1,
                                            !.failure = "no name"]
                       ELSE [started EXCEPT !.pc = "create_token"]
            /\ OtherUnchanged

\* list_agents, and the return of main after it
ListAgents == \E http \in HttpOutcomes :
    /\ proc.script = "launch-headless" /\ proc.pc = "list_agents"
    /\ CASE http = "ok" -> Finish
         [] http = "error" -> FinishAfter("agents not fetched")
         [] http = "raises" -> Fail("agents not fetched")
    /\ OtherUnchanged

\* create_token, and what main does after it
CreateToken == \E http \in HttpOutcomes, success \in BOOLEAN :
    /\ proc.script = "launch-headless" /\ proc.pc = "create_token"
    /\ IF http # "ok" \/ ~success THEN Fail("token not created")
       ELSE IF proc.options.deploy_onchain THEN Goto("deploy_onchain")
       ELSE Finish
    /\ OtherUnchanged

\* deploy_onchain up to the approval: the imports, the wallet settings, the
\* balance
DeployOnchain == \E imported, funded \in BOOLEAN :
    /\ proc.script = "launch-headless" /\ proc.pc = "deploy_onchain"
    /\ IF ~imported THEN Fail("web3 missing")
       ELSE IF ~proc.options.pk THEN Fail("no wallet key")
       ELSE IF ~proc.options.deployer THEN Fail("no deployer address")
       ELSE IF ~funded THEN Fail("balance too low")
       ELSE Goto("approve")
    /\ OtherUnchanged

\* the approval transaction: its receipt, or the wait for it raises
ApproveFet == \E receipt \in {"status 1", "status 0", "raises"} :
    /\ proc.script = "launch-headless" /\ proc.pc = "approve"
    /\ IF receipt = "status 1" THEN Goto("deploy") ELSE Fail("approval failed")
    /\ OtherUnchanged

\* the deploy transaction
DeployToken == \E receipt \in {"status 1", "status 0", "raises"} :
    /\ proc.script = "launch-headless" /\ proc.pc = "deploy"
    /\ IF receipt = "status 1" THEN Finish ELSE Fail("deploy failed")
    /\ OtherUnchanged

\* deploy-to-agentverse.py main, up to deploy_agent; agent_file is the file
\* named on the command line, if any, and whether it exists
DeployMain ==
    \E api_key, default_file, treasury_key \in BOOLEAN,
       agent_file \in {"none", "exists", "missing"} :
        LET options == [NoOptions EXCEPT !.api_key = api_key,
                                         !.agent_file = agent_file,
                                         !.default_file = default_file,
                                         !.treasury_key = treasury_key]
            started == [NotRun EXCEPT !.script = "deploy-to-agentverse",
                                      !.options = options]
        IN  /\ proc = NotRun
            /\ proc' = IF ~api_key
                       THEN [started EXCEPT !.pc = "exited", !.exit = 1,
                                            !.failure = "no api key"]
                       ELSE IF agent_file = "missing"
                       THEN [started EXCEPT !.pc = "exited", !.exit = 1,
                                            !.failure = "no agent file"]
                       ELSE [started EXCEPT !.pc = "create"]
            /\ OtherUnchanged

\* deploy_agent returns success False, or a call raises: main prints
\* DEPLOYMENT FAILED and exits with 1, or the exception ends the process
DeployStep(pc, http, failure, next) ==
    /\ proc.script = "deploy-to-agentverse" /\ proc.pc = pc
    /\ IF http = "ok" THEN Goto(next) ELSE Fail(failure)
    /\ OtherUnchanged

\* step 1
CreateAgent == \E http \in HttpOutcomes :
    DeployStep("create", http, "agent not created", "load")

\* step 2: load_agent_code, then the upload
LoadAgentCode ==
    /\ proc.script = "deploy-to-agentverse" /\ proc.pc = "load"
    /\ IF proc.options.agent_file = "none" /\ ~proc.options.default_file
       THEN Fail("no agent file")
       ELSE Goto("upload")
    /\ OtherUnchanged

UploadCode == \E http \in HttpOutcomes :
    DeployStep("upload", http, "code not uploaded", "secret")

\* step 3: the API key secret, then the treasury secret when there is one
SetSecret == \E http \in HttpOutcomes :
    DeployStep("secret", http, "secret not set",
               IF proc.options.treasury_key THEN "treasury" ELSE "start")

\* a treasury secret that is not set is a warning
SetTreasurySecret == \E http \in HttpOutcomes :
    /\ proc.script = "deploy-to-agentverse" /\ proc.pc = "treasury"
    /\ IF http = "raises" THEN Fail("secret not set") ELSE Goto("start")
    /\ OtherUnchanged

\* step 4
StartAgent == \E http \in HttpOutcomes :
    DeployStep("start", http, "agent not started", "poll")

\* step 5: one round of the wait for compilation
PollCompiled == \E http \in HttpOutcomes, compiled \in BOOLEAN :
    /\ proc.script = "deploy-to-agentverse" /\ proc.pc = "poll"
    /\ IF http = "raises" THEN Fail("status not fetched")
       ELSE IF http = "ok" /\ compiled THEN Finish
       ELSE IF proc.polls + 1 = PollAttempts THEN Fail("compilation timeout")
       ELSE proc' = [proc EXCEPT !.polls = @ + 1]
    /\ OtherUnchanged

----------------------------------------------------------------------------
(* Initial states and specifications *)

InitRate ==
    /\ requests = << >>
    /\ check_count = 0
    /\ admitted = [u \in Users |-> <<>>]
    /\ lastCheck = NoCheck

InitQuota ==
    /\ usage = << >>
    /\ quotaCalls = [u \in Users |-> [day |-> 0, n |-> 0, allFree |-> TRUE]]
    /\ rejectedOn = [u \in Users |-> -1]
    /\ lastQuota = NoQuota

\* a fresh Cache; the large one has served BigMaxSize - 1 set calls at time 0
InitCache ==
    /\ max_size \in {SmallMaxSize, BigMaxSize}
    /\ data = IF max_size = BigMaxSize THEN Prefilled ELSE <<>>
    /\ lastSet = [k \in CacheKeys |->
                    IF max_size = BigMaxSize /\ k \notin HotKeys
                    THEN [value |-> "v1", at |-> 0, ttl |-> PrefillTtl(k)]
                    ELSE NeverSet]
    /\ evicted = {}
    /\ lastOp = NoOp

InitMonitor ==
    /\ feed = [t \in Tokens |-> CHOOSE p \in Prices : \A q \in Prices : p <= q]
    /\ watches = << >>
    /\ watchOrder = <<>>
    /\ price_cache = [t \in Tokens |-> <<>>]
    /\ lastDecisions = {}
    /\ lastResponse = NoResponse
    /\ lastRemove = NoRemove

InitHandled == handled = NoHandled

InitTier == lastTier = NoTier

InitGifter ==
    /\ welcome_claims = {}
    /\ daily_claims = << >>
    /\ referral_counts = << >>
    /\ referral_map = << >>
    /\ builder_claims = << >>
    /\ rl = << >>
    /\ awaiting = {}
    /\ welcome_sent = [u \in GifterSenders |-> 0]
    /\ referral_sent = [u \in GifterSenders |-> [r \in Users |-> 0]]
    /\ builder_sent = [u \in GifterSenders |-> <<>>]
    /\ lastBuilder = NoBuilder
    /\ lastGift = NoGift

InitTrading ==
    /\ alerts = << >>
    /\ alert_owners = << >>
    /\ alerts_created = 0
    /\ made = {}
    /\ tokenData = NoData
    /\ sweep = IdleSweep
    /\ lastFired = NoFired
    /\ lastCreate = NoCreate
    /\ lastRouted = NoRouted

InitLauncher ==
    /\ sessions = << >>
    /\ lastLaunch = NoLaunch

InitAnalyst ==
    /\ clockDay = 0
    /\ firstScore = NoScore
    /\ lastScore = NoScore

InitScripts == proc = NotRun

InitExample ==
    /\ my_holdings = << >>
    /\ proposals = << >>
    /\ scanned = FALSE
    /\ lastProposals = {}

InitSwarm ==
    /\ net = {}
    /\ queries = << >>
    /\ promised = {}
    /\ answers = {}
    /\ route_count = 0
    /\ stats = [classify |-> 0, summarize |-> 0, reason |-> 0]

Init ==
    /\ now = 0
    /\ InitRate
    /\ InitQuota
    /\ InitCache
    /\ InitMonitor
    /\ InitHandled
    /\ InitTier
    /\ InitGifter
    /\ InitTrading
    /\ InitLauncher
    /\ InitAnalyst
    /\ InitSwarm
    /\ InitScripts
    /\ InitExample
    /\ OWNER_ADDRESS = ""

\* the chat handlers run with AGENT_OWNER_ADDRESS unset or set, and with the
\* cache the template builds
InitChat ==
    /\ now = 0
    /\ InitRate
    /\ InitQuota
    /\ InitCache
    /\ max_size = BigMaxSize
    /\ InitMonitor
    /\ InitHandled
    /\ InitTier
    /\ InitGifter
    /\ InitTrading
    /\ InitLauncher
    /\ InitAnalyst
    /\ InitSwarm
    /\ InitScripts
    /\ InitExample
    /\ OWNER_ADDRESS \in {"", "u1"}

NextRate == Check \/ TickRate

SpecRate == Init /\ [][NextRate]_vars

NextQuota == Quota \/ TickQuota

NextCache == Set \/ Get \/ TickCache

NextMonitor == Watch \/ CheckPrice \/ PlainCommand \/ CheckAllWatches \/ FeedChange

SpecMonitor == Init /\ [][NextMonitor]_vars

NextChat == HandleChat \/ HandleMessage

NextTier == Tier \/ TickTier

SpecTier == Init /\ [][NextTier]_vars

NextGifter == GifterChat \/ GifterResume

\* the gifter has no cache: one of the two caches is enough
InitGifterOnly == Init /\ max_size = SmallMaxSize

SpecGifter == InitGifterOnly /\ [][NextGifter]_vars

NextReferral == ReferralChat

NextBuilder == BuilderChat \/ BuilderTick

NextScore == Score \/ NextDay

SpecScore == InitGifterOnly /\ [][NextScore]_vars

NextScripts ==
    \/ LaunchMain \/ ListAgents \/ CreateToken \/ DeployOnchain \/ ApproveFet
    \/ DeployToken \/ DeployMain \/ CreateAgent \/ LoadAgentCode \/ UploadCode
    \/ SetSecret \/ SetTreasurySecret \/ StartAgent \/ PollCompiled

SpecScripts == InitGifterOnly /\ [][NextScripts]_vars

NextRemove == Watch \/ Remove \/ FeedChange

SpecRemove == InitGifterOnly /\ [][NextRemove]_vars

NextExample == TradeChat \/ PeriodicDiscovery \/ ExampleHour

SpecExample == InitGifterOnly /\ [][NextExample]_vars

NextRoute == UserAsks \/ CoordinatorChat \/ BrainChat

SpecRoute == InitGifterOnly /\ [][NextRoute]_vars

\* the agents go on handling the messages they are sent
SpecRouteFair ==
    SpecRoute /\ WF_vars(CoordinatorChat) /\ WF_vars(BrainChat)

SpecReferral == InitGifterOnly /\ [][NextReferral]_vars

SpecBuilder == InitGifterOnly /\ [][NextBuilder]_vars

NextTrading == TradingChat

NextAlerts == CreateAlertCall \/ RemoveAlertCall

SpecAlerts == InitGifterOnly /\ [][NextAlerts]_vars

NextSweep == TradingWatch \/ CheckAlerts \/ ResumeSweep \/ TokenFeed

SpecSweep == InitGifterOnly /\ [][NextSweep]_vars

SpecTrading == InitGifterOnly /\ [][NextTrading]_vars

NextLauncher == LauncherChat

SpecLauncher == InitGifterOnly /\ [][NextLauncher]_vars

SpecChat == InitChat /\ [][NextChat]_vars

SpecCache == Init /\ [][NextCache]_vars

SpecQuota == Init /\ [][NextQuota]_vars

----------------------------------------------------------------------------
(* C1: the rate limiter admits a request exactly when the sender has fewer   *)
(* than the limit admissions in the trailing 60 seconds: no 60-second        *)
(* window holds more than RateLimitPerMinute admissions of one sender, and   *)
(* a request is rejected only while the window is full, so a request made    *)
(* after the window has rolled forward is admitted again.                    *)
RateLimitWindow ==
    /\ \A u \in Users : Len(admitted[u]) <= RateLimitPerMinute
    /\ \A u \in Users :
         lastCheck.user = u =>
           IF lastCheck.error = RateLimitError
           THEN Len(admitted[u]) = RateLimitPerMinute
           ELSE admitted[u] # <<>> /\ admitted[u][Len(admitted[u])] = now

\* a sender whose list was full is admitted again once every entry of it has
\* left the window
RateLimitRecovers ==
    /\ lastCheck.user \in Users
    /\ lastCheck.dropped = RateLimitPerMinute
    /\ lastCheck.error # RateLimitError
    /\ Len(admitted[lastCheck.user]) = 1

(* C7 as stated: in every reachable state every stored timestamp of every    *)
(* sender lies within [now-60, now].                                         *)
RateWindowAlways ==
    \A u \in DOMAIN requests : \A i \in 1..Len(requests[u]) :
        now - Window <= requests[u][i] /\ requests[u][i] <= now

(* C7 as amended: right after Security.check has run for a sender, every     *)
(* timestamp stored for that sender lies within [now-60, now]; the list of   *)
(* a sender is pruned only by that sender's own checks.                      *)
RateWindowAfterCheck ==
    \A u \in Users :
        lastCheck.user = u =>
            /\ u \in DOMAIN requests
            /\ \A i \in 1..Len(requests[u]) :
                 now - Window <= requests[u][i] /\ requests[u][i] <= now

\* a check has pruned an old timestamp and kept a newer one
RateWindowPruned ==
    /\ lastCheck.user \in Users
    /\ lastCheck.dropped > 0
    /\ Len(requests[lastCheck.user]) > 1

CacheRoundTripAlways ==
    (lastOp.op = "get" /\ lastSet[lastOp.key] # NeverSet) =>
        LET s == lastSet[lastOp.key]
        IN  IF now - s.at < s.ttl
            THEN lastOp.result = s.value
            ELSE lastOp.result = None

(* C3 as amended: after set(k, v, ttl), get(k) returns v at every time less  *)
(* than ttl after the set unless a later set at capacity has dropped the     *)
(* entry to make room, and absent once ttl has elapsed; right after set the  *)
(* entry is stored with the value and the expiry now + ttl.                  *)
CacheRoundTrip ==
    /\ (lastOp.op = "get" /\ lastSet[lastOp.key] # NeverSet) =>
          LET s == lastSet[lastOp.key]
          IN  /\ (now - s.at < s.ttl /\ lastOp.key \notin evicted)
                    => lastOp.result = s.value
              /\ now - s.at >= s.ttl => lastOp.result = None
    /\ lastOp.op = "set" =>
          /\ lastOp.key \in KeysOf(data)
          /\ EntryOf(data, lastOp.key).value = lastOp.result
          /\ EntryOf(data, lastOp.key).expires = now + lastSet[lastOp.key].ttl

\* a get at a later time, still within the ttl, returns the value that was set
CacheHitLater ==
    /\ lastOp.op = "get"
    /\ lastOp.key \in HotKeys
    /\ lastOp.result \in Values
    /\ now > lastSet[lastOp.key].at

(* C4: get returns absent for a key that was never set or whose expiry has   *)
(* passed, whatever it returns is the value of the latest set and is not yet *)
(* expired, and get leaves no expired entry stored under the key.            *)
CacheGetNeverStale ==
    lastOp.op = "get" =>
        LET s == lastSet[lastOp.key]
        IN  /\ lastOp.result # None =>
                  /\ s # NeverSet
                  /\ lastOp.result = s.value
                  /\ s.at + s.ttl > now
            /\ lastOp.key \in KeysOf(data) =>
                  EntryOf(data, lastOp.key).expires > now
            /\ lastOp.removed => lastOp.key \notin KeysOf(data)

\* get has found an expired entry and removed it
CacheGetRemoved ==
    /\ lastOp.op = "get"
    /\ lastOp.removed
    /\ lastSet[lastOp.key].at + lastSet[lastOp.key].ttl <= now

(* C5: a set below capacity removes nothing; a set at capacity removes every *)
(* expired entry, removes no unexpired entry when that frees space, and      *)
(* otherwise drops exactly max_size // 10 unexpired entries, none of which   *)
(* expires later than an entry it keeps; the key being set is stored when    *)
(* set returns and no other entry is changed.                                *)
SetContract ==
    LET key     == lastOp'.key
        before  == {data[i] : i \in 1..Len(data)}
        after   == {data'[i] : i \in 1..Len(data')}
        keys    == {e.key : e \in after}
        expired == {e \in before : e.expires <= now}
        live    == before \ expired
        gone    == {e \in live : e.key \notin keys}
        full    == Len(data) >= max_size
        n       == max_size \div EvictDivisor
        Earliest(G) == \A g \in G : \A e \in live \ G : g.expires <= e.expires
    IN  /\ [key |-> key, value |-> lastOp'.result,
             expires |-> now + lastSet'[key].ttl] \in after
        /\ Cardinality(after) = Len(data')
        /\ \A e \in after : e.key # key => e \in before
        /\ ~full => \A e \in before : e.key \in keys
        /\ full => \A e \in expired : e.key # key => e.key \notin keys
        /\ (full /\ Cardinality(live) < max_size) => gone = {}
        /\ (full /\ Cardinality(live) >= max_size) =>
              \/ Cardinality(gone) = n /\ Earliest(gone)
              \/ \E own \in live :
                    /\ own.key = key
                    /\ Cardinality(gone) = n - 1
                    /\ Earliest(gone \cup {own})

CacheSetEviction == [][lastOp'.op = "set" => SetContract]_vars

\* a set at capacity has dropped an unexpired entry
CacheSetDropped ==
    /\ lastOp.op = "set"
    /\ max_size = BigMaxSize
    /\ evicted # {}
    /\ Len(data) = max_size

(* C6: the number of stored entries never exceeds max_size.                  *)
CacheSizeBound == Len(data) <= max_size

(* C8: an alert is raised at most once for a watch: after the first sweep    *)
(* that finds the condition met, no later sweep raises it again.             *)
OneShotAlert ==
    \A d \in lastDecisions : d.by = "sweep" /\ d.before => ~d.alerted

(* C9: every alert decision for a watch compares the current price with the  *)
(* baseline of that watch, the price fetched when the watch was created.     *)
AlertUsesWatchBaseline ==
    \A d \in lastDecisions :
        LET watch == watches[d.user][d.idx]
        IN  d.alerted <=> Moved(d.price, watch.baseline, watch.threshold)

(* C10: for every received chat message whose sends all went through, the   *)
(* first thing the agent sends is an acknowledgement carrying the id of      *)
(* that message, so the acknowledgement precedes any reply.                  *)
AckBeforeReply ==
    handled.agent # "none" /\ ~handled.raised =>
        /\ handled.sends # <<>>
        /\ handled.sends[1].type = "ack"
        /\ handled.sends[1].acknowledged_msg_id = handled.msg_id

InputErrorsAnswered ==
    handled.agent = TemplateAgent /\ lastCheck.error # RateLimitError =>
        /\ Strip(handled.content) = <<>> =>
              /\ handled.reply.text = "Empty message."
              /\ handled.steps = StepsOf(<<"security">>)
        /\ Len(handled.content) > MaxInputLength =>
              /\ handled.reply.text = "Message too long"
              /\ handled.steps = StepsOf(<<"security">>)

(* C18: AgentLaunch.tokenize is invoked only while handling a message of    *)
(* the owner, whatever AGENT_OWNER_ADDRESS is set to, unset included.        *)
OwnerGatedTokenize ==
    handled.tokenized => handled.sender = OWNER_ADDRESS

(* C14: when the balance query fails, get_tier returns 'free' and writes     *)
(* nothing to the cache, so the sender has no live cached tier and the next  *)
(* lookup queries upstream again; a tier found in the cache is the result of *)
(* the latest successful query for that sender, not older than the ttl.      *)
TierDegrades ==
    /\ lastTier.queried /\ lastTier.kind \in UpstreamFailures =>
          /\ lastTier.result = "free"
          /\ ~lastTier.wrote
          /\ TierKey(lastTier.user) \notin KeysOf(data)
    /\ lastTier.queried /\ lastTier.kind = "ok" =>
          /\ lastTier.wrote
          /\ StoredOf(data, TierKey(lastTier.user)).value = lastTier.result
    /\ \A u \in Users :
          TierKey(u) \in KeysOf(data) =>
              /\ lastSet[TierKey(u)] # NeverSet
              /\ EntryOf(data, TierKey(u)).value = lastSet[TierKey(u)].value
              /\ EntryOf(data, TierKey(u)).expires = lastSet[TierKey(u)].at + TierTtl

\* a failed query for a sender whose earlier cached tier has expired
TierFailedAfterExpiry ==
    /\ lastTier.queried
    /\ lastTier.kind \in UpstreamFailures
    /\ lastSet[TierKey(lastTier.user)] # NeverSet
    /\ lastSet[TierKey(lastTier.user)].value = "premium"

(* C15: the gifter sends the welcome FET to a sender at most once, over any  *)
(* sequence of messages, failed replies, failed BNB transfers and failed     *)
(* storage writes included.                                                  *)
WelcomeOnce ==
    \A sender \in GifterSenders : welcome_sent[sender] <= 1

(* C16: when the FET transfer succeeded and the BNB transfer failed, the     *)
(* claim is recorded for the sender and counted for the day once the handler *)
(* has ended (storage writes going through).                                 *)
PartialFailureRecorded ==
    lastGift.outcome \in {"recorded", "reply raised"} =>
        /\ lastGift.sender \in welcome_claims
        /\ ValueOf(daily_claims, Today(now), 0) >= 1

(* C17: a claim by an agent recorded in the referral map transfers the       *)
(* referral bonus on top of the welcome gift.                                *)
ReferredBonus ==
    /\ lastGift.outcome \in {"welcome", "bnb failed"}
    /\ lastGift.sender \in DOMAIN referral_map
    => lastGift.fet = WelcomeFet + ReferralFet

(* C12: a command that passed the gates of the price monitor is answered:   *)
(* whatever its handler does, handle_chat gets to its reply.                 *)
HandlerAnswered ==
    lastResponse.cmd # "none" => lastResponse.outcome # "raised"

(* C19: each command of the trading agent's help text is classified to the  *)
(* intent the help text describes it by.                                     *)
CommandRouting ==
    \A c \in AdvertisedCommands :
        lastRouted.text = c.text => lastRouted.intent = c.intent

(* C20: after 'use ETH' ('use BSC') the session of the sender has the chain *)
(* eth (bsc).                                                                *)
ChainSwitched ==
    /\ lastLaunch.text = UseEth /\ lastLaunch.outcome # "ack raised"
           => GetSession(lastLaunch.sender).chain = "eth"
    /\ lastLaunch.text = UseBsc /\ lastLaunch.outcome # "ack raised"
           => GetSession(lastLaunch.sender).chain = "bsc"

(* C21: create_alert for a free-tier user succeeds exactly when the user has *)
(* fewer than FreeAlerts active alerts.                                      *)
FreeAlertSlots ==
    lastCreate.tier = "free" =>
        (lastCreate.success <=> lastCreate.active_before < FreeAlerts)

(* C26: an alert the message handler reported as created stays in the        *)
(* owner's stored alert list, whatever the sweep writes back.                *)
AlertsKept ==
    \A m \in made :
        \E i \in 1..Len(ListOf(alerts, m.owner)) : alerts[m.owner][i].id = m.id

(* C27: an alert the sweep has triggered is not active any more.             *)
TriggeredInactive ==
    \A owner \in DOMAIN alerts :
        \A i \in 1..Len(alerts[owner]) :
            alerts[owner][i].triggered => ~alerts[owner][i].active

(* C28: the sweep triggers an alert only on a price the token record         *)
(* carries, under currentPrice or price, that satisfies the condition.       *)
FiresOnRealPrice ==
    lastFired.id # 0 =>
        LET token_data == lastFired.data
            price == IF token_data.currentPrice # NoPrice
                     THEN token_data.currentPrice ELSE token_data.price
        IN  /\ price # NoPrice
            /\ lastFired.condition = "above" => price >= lastFired.threshold
            /\ lastFired.condition = "below" => price <= lastFired.threshold

(* C24: a reply that carries the help text carries no end-session marker, *)
(* whichever path of the handler produced it.                             *)
HelpKeepsSession ==
    lastResponse.outcome = "help text" => ~lastResponse.end

(* C29: on one UTC day the welcome FET transfer is sent at most             *)
(* MAX_CLAIMS_PER_DAY times, whatever claim messages arrive.  (The clock     *)
(* of this specification stays within one day.)                              *)
DailyCap ==
    WelcomesSent <= MaxClaimsPerDay

(* C30: no sender is paid for referring itself, no sender is paid more than  *)
(* MAX_REFERRALS_PER_AGENT referral rewards, and the stored referral count   *)
(* of a sender is the number of referral transfers sent to it.               *)
ReferralLimits ==
    \A sender \in Users :
        /\ referral_sent[sender][sender] = 0
        /\ ReferralsPaid(sender) <= MaxReferralsPerAgent
        /\ ValueOf(referral_counts, sender, 0) = ReferralsPaid(sender)

Answered(q) ==
    q <= Len(queries) /\ [qid |-> q, to |-> queries[q]] \in answers

ExitStatus ==
    proc.exit # Running
    => /\ proc.exit \in {0, 1}
       /\ proc.exit = 1 <=> proc.failure # "none"

(* C34: 'remove <n>' with an integer n in 1..len removes exactly the n-th    *)
(* watch of the user; with an integer outside 1..len it leaves the user's    *)
(* watch list as it was; a remove never changes another user's watches.      *)
RemoveByIndex ==
    lastRemove.user # "none" /\ IsInt(lastRemove.target) =>
        LET n      == ToInt(lastRemove.target)
            before == ListOf(lastRemove.before, lastRemove.user)
        IN  /\ ListOf(watches, lastRemove.user) =
                   IF n \in 1..Len(before) THEN Pop(before, n) ELSE before
            /\ \A u \in Users \ {lastRemove.user} :
                   ListOf(watches, u) = ListOf(lastRemove.before, u)

\* the last builder claim recorded for the sender before the request, if any
RecordedBefore(sender) == sender \in DOMAIN lastBuilder.before.builder_claims

(* C31: the builder reward transfers of a sender are at least 7 days apart,  *)
(* and a builder reward request made less than 7 days after the sender's     *)
(* last recorded builder claim sends no FET and leaves the gift records of   *)
(* the storage as they were.                                                 *)
BuilderCooldown ==
    /\ \A sender \in GifterSenders :
          \A i, j \in 1..Len(builder_sent[sender]) :
             i < j => builder_sent[sender][j] - builder_sent[sender][i]
                        >= BuilderCooldownDays * SecondsPerDay
    /\ /\ lastBuilder.sender # "none"
       /\ RecordedBefore(lastBuilder.sender)
       /\ lastBuilder.at - lastBuilder.before.builder_claims[lastBuilder.sender]
             < BuilderCooldownDays * SecondsPerDay
       => lastBuilder.fet = 0 /\ GiftRecords = lastBuilder.before

(* C32: for every trade message, the amount of the generated buy link and   *)
(* the amount added to the recorded holdings of the token are both at most  *)
(* MAX_BUY_AMOUNT_FET, and they are equal.                                   *)
PerTradeCap ==
    \A p \in lastProposals :
        p.path = "chat" => /\ p.amount <= MAX_BUY_AMOUNT_FET
                           /\ p.held <= MAX_BUY_AMOUNT_FET
                           /\ p.held = p.amount

(* C33: the trading example never generates a buy link for its own token    *)
(* and never records a holding of it, on the periodic path and on the chat  *)
(* trade path alike.                                                        *)
NoWashTrading ==
    /\ \A p \in lastProposals : p.token # MY_TOKEN_ADDRESS
    /\ MY_TOKEN_ADDRESS \notin DOMAIN my_holdings

====
